---- MODULE Spec2Model ----
(***************************************************************************)
(* A model of pyrallis: the type-directed decode/encode engine             *)
(* (parsers/decoding.py, parsers/encoding.py), the memoised resolution of  *)
(* decoding functions, and the source merger of the argument parser        *)
(* (argparsing.py, utils.py).                                              *)
(*                                                                         *)
(* Python values are records of one shape, so that any two of them can be  *)
(* compared:                                                               *)
(*    t   the runtime type ("int", "list", ...) or, for a raised           *)
(*        exception, the exception class ("TypeError", ...)                *)
(*    n   the number of a bool / int / float (floats count in halves:      *)
(*        n = 3 is 1.5)                                                    *)
(*    s   a label: the class of an instance or enum member, the name of an *)
(*        attribute, the message kind of an exception                      *)
(*    c   the text of a str, as a sequence of characters                   *)
(*    xs  the items of a container, the entries of a dict, the attributes  *)
(*        of an instance, the payload of an exception                      *)
(***************************************************************************)
EXTENDS Integers, Sequences, FiniteSets, TLC

VARIABLES
    op,         \* the operation performed last
    typ,        \* decode engine: the type annotation decoded against
    raw,        \* decode engine: the raw value handed to decode
    out,        \* decode engine: what the operation returned or raised
    used,       \* decode engine: the leaf decoders invoked, in order
    registry,   \* decode.registry: class name -> the decoder registered for it
    cache,      \* the lru_cache of get_decoding_fn: annotation -> decoding function
    parser,     \* the ArgumentParser: its programmatic config_path
    files,      \* the content of the config files on disk
    cli,        \* the flat mapping argparse produced from the command line
    merged,     \* _postprocessing: the flat and the nested mapping handed to decode
    config_type,\* Options._config_type: the member of ConfigType selected
    scopes,     \* the config_type(...) contexts entered and not left, innermost first
    wr,         \* the closure of withregistry: registry, dispatch_cache, cache_token
    abc,        \* the abc module: the classes registered as virtual subclasses
    config_dict \* dump: the mapping handed to save_config

vars ==
    <<op, typ, raw, out, used, registry, cache, parser, files, cli, merged,
      config_type, scopes, wr, abc, config_dict>>

(***************************************************************************)
(* Bounds of the model.                                                    *)
(***************************************************************************)
MaxInt == 2      \* the ints of the model are 0..MaxInt
MaxLen == 3      \* the longest raw list handed to decode
MaxItems == 1    \* the most items in a container of a dataclass instance
MaxEntries == 2  \* the most entries of a mapping handed to encode

(***************************************************************************)
(* Python values.                                                          *)
(***************************************************************************)
V(t, n, s, c, xs) == [t |-> t, n |-> n, s |-> s, c |-> c, xs |-> xs]

PyNone == V("none", 0, "", <<>>, <<>>)
PyBool(b) == V("bool", IF b THEN 1 ELSE 0, "", <<>>, <<>>)
PyInt(n) == V("int", n, "", <<>>, <<>>)
PyFloat(h) == V("float", h, "", <<>>, <<>>)
PyStr(c) == V("str", 0, "", c, <<>>)
PyList(xs) == V("list", 0, "", <<>>, xs)
PyTuple(xs) == V("tuple", 0, "", <<>>, xs)
PySet(xs) == V("set", 0, "", <<>>, xs)
PyItem(k, v) == V("item", 0, "", <<>>, <<k, v>>)
PyDict(items) == V("dict", 0, "", <<>>, items)
PyAttr(name, v) == V("attr", 0, "", name, <<v>>)
PyObj(cls, attrs) == V("object", 0, cls, <<>>, attrs)
PyEnum(cls, name) == V("enum", 0, cls, name, <<>>)
\* a class, as an f-string formats it
PyType(cls) == V("type", 0, cls, <<>>, <<>>)
Raise(exc, msg, payload) == V(exc, 0, msg, <<>>, payload)

ExceptionTypes ==
    {"TypeError", "ValueError", "Exception", "RuntimeError", "AttributeError",
     "AssertionError", "IndexError", "FileNotFoundError", "KeyError",
     "ArgumentError", "NotImplementedError"}

IsErr(v) == v.t \in ExceptionTypes

IsNumber(v) == v.t \in {"bool", "int", "float"}

\* The value of a number in halves, the unit in which floats are counted.
Halves(v) == IF v.t = "float" THEN v.n ELSE 2 * v.n

SeqToSet(xs) == {xs[i] : i \in DOMAIN xs}

\* The first failure among the items of a sequence of results: Python raises
\* out of a comprehension at the first item that fails.
FirstErr(xs) ==
    LET bad == {i \in DOMAIN xs : IsErr(xs[i])}
    IN  xs[CHOOSE i \in bad : \A j \in bad : i <= j]

AnyErr(xs) == \E i \in DOMAIN xs : IsErr(xs[i])

RECURSIVE PyEq(_, _)
\* Python's ==: numbers compare by value across bool/int/float, lists and
\* tuples item by item, sets and dicts regardless of order, instances of a
\* dataclass by class and attributes.
PyEq(a, b) ==
    IF IsNumber(a) /\ IsNumber(b) THEN Halves(a) = Halves(b)
    ELSE IF a.t # b.t THEN FALSE
    ELSE IF a.t \in {"list", "tuple", "item", "attr"}
        THEN /\ a.c = b.c
             /\ Len(a.xs) = Len(b.xs)
             /\ \A i \in DOMAIN a.xs : PyEq(a.xs[i], b.xs[i])
    ELSE IF a.t = "set"
        THEN /\ \A i \in DOMAIN a.xs : \E j \in DOMAIN b.xs : PyEq(a.xs[i], b.xs[j])
             /\ \A j \in DOMAIN b.xs : \E i \in DOMAIN a.xs : PyEq(a.xs[i], b.xs[j])
    ELSE IF a.t = "dict"
        THEN /\ Len(a.xs) = Len(b.xs)
             /\ \A i \in DOMAIN a.xs : \E j \in DOMAIN b.xs :
                    /\ PyEq(a.xs[i].xs[1], b.xs[j].xs[1])
                    /\ PyEq(a.xs[i].xs[2], b.xs[j].xs[2])
    ELSE IF a.t = "object"
        THEN /\ a.s = b.s
             /\ Len(a.xs) = Len(b.xs)
             /\ \A i \in DOMAIN a.xs : PyEq(a.xs[i], b.xs[i])
    ELSE a = b

(***************************************************************************)
(* The constructors of the scalar classes, which decoding.py registers as  *)
(* their own decoders: str(x), int(x), float(x), bool(x).                  *)
(***************************************************************************)
Digits == <<"0", "1", "2", "3", "4", "5", "6", "7", "8", "9">>

IsDigit(ch) == \E i \in DOMAIN Digits : Digits[i] = ch

DigitValue(ch) == (CHOOSE i \in DOMAIN Digits : Digits[i] = ch) - 1

\* "7": an integer literal of one digit
IsIntLiteral(c) == Len(c) = 1 /\ IsDigit(c[1])

\* "1.5", "2.0": a float literal in halves
IsHalfLiteral(c) ==
    Len(c) = 3 /\ IsDigit(c[1]) /\ c[2] = "." /\ c[3] \in {"0", "5"}

IntText(n) == IF n < 10 THEN <<Digits[n + 1]>> ELSE <<"9", "+">>

FloatText(h) ==
    IntText(h \div 2) \o <<".">> \o (IF h % 2 = 0 THEN <<"0">> ELSE <<"5">>)

ReprText == <<"<", "r", "e", "p", "r", ">">>

str(v) ==
    CASE v.t = "str" -> v
      [] v.t = "int" -> PyStr(IntText(v.n))
      [] v.t = "float" -> PyStr(FloatText(v.n))
      [] v.t = "bool" -> PyStr(IF v.n = 1 THEN <<"T", "r", "u", "e">>
                                          ELSE <<"F", "a", "l", "s", "e">>)
      [] v.t = "none" -> PyStr(<<"N", "o", "n", "e">>)
      [] OTHER -> PyStr(ReprText)

int(v) ==
    CASE v.t \in {"int", "bool"} -> PyInt(v.n)
      [] v.t = "float" -> PyInt(v.n \div 2)
      [] v.t = "str" ->
            IF IsIntLiteral(v.c) THEN PyInt(DigitValue(v.c[1]))
            ELSE Raise("ValueError", "invalid literal for int()", <<v>>)
      [] OTHER -> Raise("TypeError", "int() argument", <<v>>)

float(v) ==
    CASE v.t \in {"int", "bool"} -> PyFloat(2 * v.n)
      [] v.t = "float" -> v
      [] v.t = "str" ->
            IF IsIntLiteral(v.c) THEN PyFloat(2 * DigitValue(v.c[1]))
            ELSE IF IsHalfLiteral(v.c)
                THEN PyFloat(2 * DigitValue(v.c[1]) + (IF v.c[3] = "5" THEN 1 ELSE 0))
            ELSE Raise("ValueError", "could not convert string to float", <<v>>)
      [] OTHER -> Raise("TypeError", "float() argument", <<v>>)

bool(v) ==
    CASE v.t \in {"int", "bool", "float"} -> PyBool(v.n # 0)
      [] v.t = "none" -> PyBool(FALSE)
      [] v.t = "str" -> PyBool(Len(v.c) > 0)
      [] v.t \in {"list", "tuple", "set", "dict"} -> PyBool(Len(v.xs) > 0)
      [] OTHER -> PyBool(TRUE)

(***************************************************************************)
(* Type annotations.  k is the kind of annotation, name the class, args    *)
(* the type arguments (typing.get_args).                                   *)
(***************************************************************************)
Ty(k, name, args) == [k |-> k, name |-> name, args |-> args]

TInt == Ty("class", "int", <<>>)
TFloat == Ty("class", "float", <<>>)
TStr == Ty("class", "str", <<>>)
TBool == Ty("class", "bool", <<>>)
TPlain(name) == Ty("class", name, <<>>)
TNone == Ty("NoneType", "NoneType", <<>>)
TEllipsis == Ty("Ellipsis", "...", <<>>)
TAny == Ty("Any", "Any", <<>>)
TData(name) == Ty("dataclass", name, <<>>)
TEnum(name) == Ty("enum", name, <<>>)
TList(t) == Ty("list", "List", <<t>>)
TBareList == Ty("list", "List", <<>>)
TSet(t) == Ty("set", "Set", <<t>>)
TDict(k, v) == Ty("dict", "Dict", <<k, v>>)
TBareDict == Ty("dict", "Dict", <<>>)
TTuple(args) == Ty("tuple", "Tuple", args)
TUnion(args) == Ty("union", "Union", args)
TOptional(t) == Ty("union", "Union", <<t, TNone>>)

is_dataclass(t) == t.k = "dataclass"
is_dataclass_type(t) == is_dataclass(t)
is_dict(t) == t.k = "dict"
is_set(t) == t.k = "set"
is_tuple(t) == t.k = "tuple"
is_list(t) == t.k = "list"
is_union(t) == t.k = "union"
is_enum(t) == t.k = "enum"
get_type_arguments(t) == t.args

(***************************************************************************)
(* The schemas the model decodes against: the dataclasses and the enum of  *)
(* the repository's tests, with one-letter field names.                    *)
(***************************************************************************)
MISSING == V("MISSING", 0, "", <<>>, <<>>)

\* utils.CONFIG_ARG and the destination of the option --CONFIG
CONFIG_ARG == <<"c", "o", "n", "f", "i", "g", "_", "p", "a", "t", "h">>
CONFIG == <<"C", "O", "N", "F", "I", "G">>

Field(name, type, default, init) ==
    [name |-> name, type |-> type, default |-> default, init |-> init]

cBob == <<"b", "o", "b">>
cKevin == <<"k">>
cRed == <<"r", "e", "d">>
cBlue == <<"b", "l", "u", "e">>

\* class Color(Enum): blue = auto(); red = auto()
EnumMembers(cls) ==
    IF cls = "Color"
    THEN <<[name |-> cBlue, value |-> PyInt(1)], [name |-> cRed, value |-> PyInt(2)]>>
    ELSE <<>>

DataclassNames ==
    {"Required", "Scalars", "Container", "Variadic", "Child", "Parent", "Nested",
     "Bob", "Foo", "Painted", "SomeClass", "WithSet", "Derived", "Sub", "Config"}

fields(cls) ==
    CASE cls = "Required" -> <<Field(<<"a">>, TInt, MISSING, TRUE)>>
      [] cls = "Scalars" ->
            <<Field(<<"a">>, TInt, MISSING, TRUE),
              Field(<<"b">>, TFloat, PyFloat(2), TRUE),
              Field(<<"c">>, TStr, PyStr(<<>>), TRUE)>>
      [] cls = "Container" ->
            <<Field(<<"i">>, TTuple(<<TInt, TInt>>), PyTuple(<<PyInt(1), PyInt(2)>>), TRUE)>>
      [] cls = "Variadic" ->
            <<Field(<<"i">>, TTuple(<<TInt, TEllipsis>>), PyTuple(<<>>), TRUE)>>
      [] cls = "Child" -> <<Field(<<"n">>, TStr, PyStr(cKevin), TRUE)>>
      [] cls = "Parent" -> <<Field(<<"c">>, TOptional(TData("Child")), PyNone, TRUE)>>
      [] cls = "Nested" ->
            <<Field(<<"p">>, TData("Child"),
                    PyObj("Child", <<PyAttr(<<"n">>, PyStr(cKevin))>>), TRUE),
              Field(<<"a">>, TInt, PyInt(0), TRUE)>>
      [] cls = "Bob" -> <<Field(<<"w">>, TOptional(TInt), PyInt(1), TRUE)>>
      [] cls = "Foo" -> <<Field(<<"x">>, TUnion(<<TFloat, TStr>>), PyInt(0), TRUE)>>
      [] cls = "Painted" -> <<Field(<<"k">>, TEnum("Color"), PyEnum("Color", cRed), TRUE)>>
      [] cls = "SomeClass" ->
            <<Field(<<"d">>, TDict(TStr, TInt), PyDict(<<>>), TRUE),
              Field(<<"l">>, TList(TTuple(<<TInt, TInt>>)), PyList(<<>>), TRUE)>>
      [] cls = "WithSet" -> <<Field(<<"s">>, TSet(TInt), PySet(<<>>), TRUE)>>
      [] cls = "Derived" ->
            <<Field(<<"a">>, TInt, PyInt(0), TRUE),
              Field(<<"z">>, TInt, MISSING, FALSE)>>
      [] cls = "Computed" ->
            <<Field(<<"a">>, TInt, PyInt(0), TRUE),
              Field(<<"z">>, TInt, MISSING, FALSE)>>
      [] cls = "Sub" ->
            <<Field(<<"x">>, TInt, PyInt(0), TRUE), Field(<<"y">>, TInt, PyInt(0), TRUE)>>
      [] cls = "Config" ->
            <<Field(<<"a">>, TInt, PyInt(0), TRUE),
              Field(<<"s">>, TData("Sub"),
                    PyObj("Sub", <<PyAttr(<<"x">>, PyInt(0)), PyAttr(<<"y">>, PyInt(0))>>),
                    TRUE),
              Field(<<"d">>, TDict(TStr, TInt), PyDict(<<>>), TRUE)>>
      \* tests/test_optional.py: Dog, Parent (here Family, Parent being the
      \* class with one optional group) and GrandParent
      [] cls = "Dog" ->
            <<Field(<<"b">>, TStr, PyStr(<<"s">>), TRUE),
              Field(<<"y">>, TInt, PyInt(2), TRUE)>>
      [] cls = "Family" ->
            <<Field(<<"c">>, TOptional(TData("Child")), PyNone, TRUE),
              Field(<<"d">>, TOptional(TData("Dog")), PyNone, TRUE)>>
      [] cls = "GrandParent" ->
            <<Field(<<"n">>, TOptional(TData("Family")), PyNone, TRUE),
              Field(<<"m">>, TOptional(TData("Family")), PyNone, TRUE)>>
      \* a nested dataclass whose default instance is not the one its class
      \* makes by default
      [] cls = "Preset" ->
            <<Field(<<"a">>, TInt, PyInt(0), TRUE),
              Field(<<"s">>, TData("Sub"),
                    PyObj("Sub", <<PyAttr(<<"x">>, PyInt(1)), PyAttr(<<"y">>, PyInt(0))>>),
                    TRUE)>>
      \* schemas given to the argument parser only
      [] cls = "Group" -> <<Field(<<"l">>, TList(TData("Child")), PyList(<<>>), TRUE)>>
      [] cls = "Outer" ->
            <<Field(<<"a">>, TInt, PyInt(0), TRUE),
              Field(<<"g">>, TData("Group"), MISSING, TRUE)>>
      [] cls = "Maybe" ->
            <<Field(<<"l">>, TOptional(TList(TData("Child"))), PyNone, TRUE)>>
      [] cls = "Mixed" ->
            <<Field(<<"t">>, TTuple(<<TInt, TData("Child")>>), MISSING, TRUE)>>
      [] cls = "MainClass" -> <<Field(CONFIG_ARG, TStr, PyStr(<<>>), TRUE)>>
      [] cls = "Shout" -> <<Field(CONFIG, TStr, PyStr(<<>>), TRUE)>>
      [] OTHER -> <<>>

(***************************************************************************)
(* Helpers on Python containers.                                           *)
(***************************************************************************)
RECURSIVE Hashable(_)
\* hash(v) succeeds: lists, dicts, sets and (eq, non-frozen) dataclass
\* instances are unhashable, a tuple is hashable when its items are.
Hashable(v) ==
    CASE v.t \in {"list", "dict", "set", "object"} -> FALSE
      [] v.t = "tuple" -> \A i \in DOMAIN v.xs : Hashable(v.xs[i])
      [] OTHER -> TRUE

\* iter(v) succeeds
Iterable(v) == v.t \in {"list", "tuple", "set", "dict", "str"}

\* the items `for x in v` yields: a dict yields its keys, a str its characters
Iter(v) ==
    CASE v.t = "dict" -> [i \in DOMAIN v.xs |-> v.xs[i].xs[1]]
      [] v.t = "str" -> [i \in DOMAIN v.c |-> PyStr(<<v.c[i]>>)]
      [] OTHER -> v.xs

\* the position of key k among the entries of a dict, 0 when absent
DictIndex(items, k) ==
    LET hit == {i \in DOMAIN items : PyEq(items[i].xs[1], k)}
    IN  IF hit = {} THEN 0 ELSE CHOOSE i \in hit : TRUE

\* result[k] = v on the entries of a dict: a new key goes last, a key that is
\* already there keeps its place and takes the new value
DictSet(items, k, v) ==
    LET i == DictIndex(items, k)
    IN  IF i = 0 THEN Append(items, PyItem(k, v))
        ELSE [items EXCEPT ![i] = PyItem(items[i].xs[1], v)]

\* the entries of a dict without key k (dict.pop)
DictDel(items, k) ==
    LET i == DictIndex(items, k)
    IN  IF i = 0 THEN items
        ELSE [j \in 1..(Len(items) - 1) |-> IF j < i THEN items[j] ELSE items[j + 1]]

RECURSIVE Distinct(_, _)
\* set(xs): the items of xs without repetition (kept in order of first
\* occurrence; PyEq compares sets regardless of order)
Distinct(xs, acc) ==
    IF xs = <<>> THEN acc
    ELSE Distinct(Tail(xs),
                  IF \E i \in DOMAIN acc : PyEq(acc[i], Head(xs))
                  THEN acc ELSE Append(acc, Head(xs)))

(***************************************************************************)
(* Decoding functions.  get_decoding_fn returns a function object, a       *)
(* closure over the decoding functions of the type arguments as they were  *)
(* resolved when the closure was made.  f names the function, id the class *)
(* or registered decoder it is bound to, subs the functions it closes      *)
(* over.  f = "raise" stands for get_decoding_fn raising.                  *)
(***************************************************************************)
Fn(f, id, subs) == [f |-> f, id |-> id, subs |-> subs]

NoFn(t) == Fn("raise", t.name, <<>>)

Failed(fn) == fn.f = "raise"

\* The decoders that can be registered: the scalar constructors, which
\* decoding.py registers for their own classes, and decoders of the caller.
BuiltinDecoders == {"str", "float", "int", "bool"}
CustomDecoders == {"decA", "decB"}
Unregistered == "unregistered"

\* What a decoder of the caller returns: a value that tells which decoder
\* made it and from what.
CallDecoder(id, v) ==
    CASE id = "str" -> str(v)
      [] id = "float" -> float(v)
      [] id = "int" -> int(v)
      [] id = "bool" -> bool(v)
      [] OTHER -> V("decoded", 0, id, <<>>, <<v>>)

\* for t in [str, float, int, bool, bytes]: decode.register(t, t)
InitRegistry ==
    [name \in BuiltinDecoders \cup DataclassNames \cup {"Color", "Plain"} |->
        IF name \in BuiltinDecoders THEN name ELSE Unregistered]

InRegistry(t, reg) ==
    /\ t.k \in {"class", "dataclass", "enum"}
    /\ t.name \in DOMAIN reg
    /\ reg[t.name] # Unregistered

RECURSIVE get_decoding_fn(_, _, _)
RECURSIVE Resolve(_, _, _)

\* The first of the functions that failed to resolve.
FirstFailed(fns) ==
    fns[CHOOSE i \in DOMAIN fns :
            Failed(fns[i]) /\ \A j \in 1..(i - 1) : ~Failed(fns[j])]

AnyFailed(fns) == \E i \in DOMAIN fns : Failed(fns[i])

\* The function f closing over the functions subs, which the maker of f
\* resolved in this order: when resolving one of them raised, so did the maker.
Closure(f, id, subs) == IF AnyFailed(subs) THEN FirstFailed(subs) ELSE Fn(f, id, subs)

decode_optional(t, reg, ch) ==
    Closure("_decode_optional", "", <<get_decoding_fn(t, reg, ch)>>)

try_functions(funcs) == Closure("_try_functions", "", funcs)

decode_union(types, reg, ch) ==
    LET optional == \E i \in DOMAIN types : types[i] = TNone
        rest == SelectSeq(types, LAMBDA t : t # TNone)
    IN  try_functions([i \in DOMAIN rest |->
                          IF optional THEN decode_optional(rest[i], reg, ch)
                          ELSE get_decoding_fn(rest[i], reg, ch)])

decode_list(t, reg, ch) == Closure("_decode_list", "", <<get_decoding_fn(t, reg, ch)>>)

decode_tuple(tuple_item_types, reg, ch) ==
    IF \E i \in DOMAIN tuple_item_types : tuple_item_types[i] = TEllipsis
    THEN LET ellipsis_index ==
                 CHOOSE i \in DOMAIN tuple_item_types :
                    /\ tuple_item_types[i] = TEllipsis
                    /\ \A j \in 1..(i - 1) : tuple_item_types[j] # TEllipsis
             \* tuple_item_types[ellipsis_index - 1]: index -1 is the last item
             decoding_fn_index ==
                 IF ellipsis_index = 1 THEN Len(tuple_item_types)
                 ELSE ellipsis_index - 1
         IN  Closure("_decode_tuple", "ellipsis",
                     <<get_decoding_fn(tuple_item_types[decoding_fn_index], reg, ch)>>)
    ELSE IF Len(tuple_item_types) = 0
    THEN Fn("_decode_tuple", "ellipsis", <<Fn("no_op", "", <<>>)>>)
    ELSE Closure("_decode_tuple", "fixed",
                 [i \in DOMAIN tuple_item_types |->
                     get_decoding_fn(tuple_item_types[i], reg, ch)])

decode_set(item_type, reg, ch) ==
    Closure("_decode_set", "", <<decode_list(item_type, reg, ch)>>)

decode_dict(K_, V_, reg, ch) ==
    Closure("_decode_dict", "",
            <<get_decoding_fn(K_, reg, ch), get_decoding_fn(V_, reg, ch)>>)

\* The body of get_decoding_fn: the first strategy that matches the annotation.
Resolve(t, reg, ch) ==
    IF InRegistry(t, reg) THEN Fn("registered", reg[t.name], <<>>)
    ELSE IF is_dataclass(t) THEN Fn("decode_dataclass", t.name, <<>>)
    ELSE IF t = TAny THEN Fn("no_op", "", <<>>)
    ELSE IF is_dict(t)
        THEN LET args == IF Len(get_type_arguments(t)) # 2 THEN <<TAny, TAny>>
                         ELSE get_type_arguments(t)
             IN  decode_dict(args[1], args[2], reg, ch)
    ELSE IF is_set(t)
        THEN LET args == IF Len(get_type_arguments(t)) # 1 THEN <<TAny>>
                         ELSE get_type_arguments(t)
             IN  decode_set(args[1], reg, ch)
    ELSE IF is_tuple(t) THEN decode_tuple(get_type_arguments(t), reg, ch)
    ELSE IF is_list(t)
        THEN LET args == IF get_type_arguments(t) = <<>> THEN <<TAny>>
                         ELSE get_type_arguments(t)
             IN  decode_list(args[1], reg, ch)
    ELSE IF is_union(t) THEN decode_union(get_type_arguments(t), reg, ch)
    ELSE IF is_enum(t) THEN Fn("enum", t.name, <<>>)
    ELSE NoFn(t)

\* @lru_cache: the function resolved before for this annotation, if any
get_decoding_fn(t, reg, ch) ==
    IF t \in DOMAIN ch THEN ch[t] ELSE Resolve(t, reg, ch)

\* The annotations whose decoding functions the body of get_decoding_fn asks
\* for, in the order it asks.
SubTypes(t, reg) ==
    IF InRegistry(t, reg) \/ is_dataclass(t) \/ t = TAny THEN <<>>
    ELSE IF is_dict(t)
        THEN IF Len(t.args) # 2 THEN <<TAny, TAny>> ELSE t.args
    ELSE IF is_set(t) THEN IF Len(t.args) # 1 THEN <<TAny>> ELSE t.args
    ELSE IF is_tuple(t)
        THEN IF \E i \in DOMAIN t.args : t.args[i] = TEllipsis
             THEN SelectSeq(t.args, LAMBDA a : a # TEllipsis)
             ELSE t.args
    ELSE IF is_list(t) THEN IF t.args = <<>> THEN <<TAny>> ELSE t.args
    ELSE IF is_union(t) THEN SelectSeq(t.args, LAMBDA a : a # TNone)
    ELSE <<>>

RECURSIVE Memoised(_, _, _)

\* The annotations among subs that are asked for: get_decoding_fn raises at
\* the first that does not resolve and asks for none after it.
Asked(subs, reg, ch) ==
    {i \in DOMAIN subs :
        \A j \in 1..(i - 1) : ~Failed(get_decoding_fn(subs[j], reg, ch))}

\* The entries a call get_decoding_fn(t) adds to the cache: t and the
\* annotations under it that were not cached, as far as they resolve (a call
\* that raises is not memoised).
Memoised(t, reg, ch) ==
    IF t \in DOMAIN ch THEN {}
    ELSE (IF Failed(Resolve(t, reg, ch)) THEN {} ELSE {t})
         \cup UNION {Memoised(SubTypes(t, reg)[i], reg, ch) :
                        i \in Asked(SubTypes(t, reg), reg, ch)}

(***************************************************************************)
(* Calling a decoding function.  The result holds the value returned or    *)
(* the exception raised (val), the decoding functions that were called, in *)
(* order (calls), and the annotations resolved on the way (req): a         *)
(* dataclass resolves the decoder of a field only when it decodes it.      *)
(***************************************************************************)
Res(val, calls, req) == [val |-> val, calls |-> calls, req |-> req]

Call(fn) == [f |-> fn.f, id |-> fn.id]

RECURSIVE Run(_, _, _, _)
RECURSIVE RunEach(_, _, _, _, _)
RECURSIVE TryEach(_, _, _, _, _, _)
RECURSIVE DecodeFields(_, _, _, _, _)
RECURSIVE DictEach(_, _, _, _, _, _)

\* the result r of a call made after the calls of acc
After(acc, r) == Res(r.val, acc.calls \o r.calls, acc.req \cup r.req)

\* the result r of a call, its value added to the values acc has collected
Collect(acc, r) == Res(Append(acc.val, r.val), acc.calls \o r.calls, acc.req \cup r.req)

\* fns[i](vals[i]) for i = 1, 2, ... until one raises; acc.val holds the
\* results so far, the last of them the exception if one was raised.
RunEach(fns, vals, reg, ch, acc) ==
    IF Len(acc.val) = Len(vals) \/ AnyErr(acc.val) THEN acc
    ELSE RunEach(fns, vals, reg, ch,
                 Collect(acc, Run(fns[Len(acc.val) + 1], vals[Len(acc.val) + 1],
                                  reg, ch)))

\* list(...) or tuple(...) of the results r collected, or the exception that
\* ended the collecting
Gathered(t, r) ==
    IF AnyErr(r.val) THEN Res(FirstErr(r.val), r.calls, r.req)
    ELSE Res(V(t, 0, "", <<>>, r.val), r.calls, r.req)

\* The loop of _try_functions over funcs, function i next; acc is the
\* result of function i - 1.
TryEach(funcs, val, reg, ch, i, acc) ==
    IF i > 1 /\ ~IsErr(acc.val) THEN acc
    ELSE IF i > Len(funcs)
    THEN Res(Raise("TypeError", "No valid parsing for value", <<val>>),
             acc.calls, acc.req)
    ELSE TryEach(funcs, val, reg, ch, i + 1, After(acc, Run(funcs[i], val, reg, ch)))

\* A faulty _try_functions that tries the functions from the last one back.
_try_functions_reversed(fn, val, reg, ch) ==
    TryEach([i \in DOMAIN fn.subs |-> fn.subs[Len(fn.subs) + 1 - i]], val, reg, ch, 1,
            Res(PyNone, <<>>, {}))

\* _try_functions: the result of the first function that does not raise
_try_functions(fn, val, reg, ch) ==
    TryEach(fn.subs, val, reg, ch, 1, Res(PyNone, <<>>, {}))

\* A faulty _decode_optional that hands None to the wrapped function too.
_decode_optional_eager(fn, val, reg, ch) == Run(fn.subs[1], val, reg, ch)

\* _decode_optional: val if val is None else decode(val)
_decode_optional(fn, val, reg, ch) ==
    IF val = PyNone THEN Res(val, <<>>, {}) ELSE Run(fn.subs[1], val, reg, ch)

\* t(raw) for an Enum class t: the member whose value is raw
EnumCall(cls, v) ==
    IF v.t = "enum" /\ v.s = cls THEN v
    ELSE IF \A i \in DOMAIN EnumMembers(cls) : ~PyEq(EnumMembers(cls)[i].value, v)
    THEN Raise("ValueError", "is not a valid member", <<v>>)
    ELSE PyEnum(cls, EnumMembers(cls)[CHOOSE i \in DOMAIN EnumMembers(cls) :
                                          PyEq(EnumMembers(cls)[i].value, v)].name)

\* the value that args or the default gives field f, MISSING when neither does
ValueOf(f, init_args, non_init_args) ==
    IF DictIndex(IF f.init THEN init_args ELSE non_init_args, PyStr(f.name)) # 0
    THEN (IF f.init THEN init_args ELSE non_init_args)
            [DictIndex(IF f.init THEN init_args ELSE non_init_args, PyStr(f.name))].xs[2]
    ELSE f.default

\* A faulty construction that fills a field nothing sets with None.
Construct_lenient(cls, init_args, non_init_args) ==
    PyObj(cls, [i \in DOMAIN fields(cls) |->
                  PyAttr(fields(cls)[i].name,
                         IF ValueOf(fields(cls)[i], init_args, non_init_args) = MISSING
                         THEN PyNone
                         ELSE ValueOf(fields(cls)[i], init_args, non_init_args))])

\* __post_init__ of cls, which dataclasses call at the end of __init__, on
\* the values that __init__ has assigned to the fields (MISSING: none).
\* Computed sets its field z, which is not part of __init__, to self.a.
__post_init__(cls, built) ==
    IF cls = "Computed" THEN [built EXCEPT ![2] = built[1]] ELSE built

\* A faulty setattr that leaves an attribute that was assigned before as it is.
setattr_unless_assigned(assigned, value) == IF assigned = MISSING THEN value ELSE assigned

\* setattr(instance, name, value) on an attribute that holds assigned
setattr(assigned, value) == value

\* cls(**init_args), then setattr for the fields that are not part of
\* __init__.  A field without default that is missing from init_args makes
\* __init__ raise TypeError, which decode_dataclass turns into RuntimeError.
Construct(cls, init_args, non_init_args) ==
    LET fs == fields(cls)
        missing == {i \in DOMAIN fs :
                        /\ fs[i].init
                        /\ DictIndex(init_args, PyStr(fs[i].name)) = 0
                        /\ fs[i].default = MISSING}
        \* what __init__ assigns: the argument or the default of a field
        \* of __init__, the default of any other field
        built == [i \in DOMAIN fs |->
                     IF fs[i].init THEN ValueOf(fs[i], init_args, non_init_args)
                     ELSE fs[i].default]
        post == __post_init__(cls, built)
        final == [i \in DOMAIN fs |->
                     IF ~fs[i].init /\ DictIndex(non_init_args, PyStr(fs[i].name)) # 0
                     THEN setattr(post[i], ValueOf(fs[i], init_args, non_init_args))
                     ELSE post[i]]
    IN  IF missing # {}
        THEN Raise("RuntimeError", "Couldn't instantiate class",
                   <<PyStr(fs[CHOOSE i \in missing : \A j \in missing : i <= j].name)>>)
        ELSE PyObj(cls, SelectSeq([i \in DOMAIN fs |-> PyAttr(fs[i].name, final[i])],
                                  LAMBDA attr : attr.xs[1] # MISSING))

\* decode(t, raw_value) once get_decoding_fn(t) has returned fn, or raised,
\* and has memoised the annotations asked
Apply(fn, asked, raw_value, reg, ch) ==
    IF Failed(fn)
    THEN Res(Raise("Exception", "No decoding function for type", <<PyType(fn.id)>>),
             <<>>, asked)
    ELSE After(Res(PyNone, <<>>, asked), Run(fn, raw_value, reg, ch))

\* decode(t, raw_value): get_decoding_fn(t)(raw_value)
decode(t, raw_value, reg, ch) ==
    Apply(get_decoding_fn(t, reg, ch), Memoised(t, reg, ch), raw_value, reg, ch)

\* decode_field: decode(field.type, raw_value)
decode_field(field, raw_value, reg, ch) == decode(field.type, raw_value, reg, ch)

\* The rest of an iteration of the loop of decode_dataclass: the key of the
\* field has been popped from obj_dict and decode_field has given r.
Consume(st, field, r) ==
    [obj_dict |-> DictDel(st.obj_dict, PyStr(field.name)),
     init_args |-> IF field.init /\ ~IsErr(r.val)
                   THEN DictSet(st.init_args, PyStr(field.name), r.val)
                   ELSE st.init_args,
     non_init_args |-> IF ~field.init /\ ~IsErr(r.val)
                       THEN DictSet(st.non_init_args, PyStr(field.name), r.val)
                       ELSE st.non_init_args,
     err |-> IF IsErr(r.val) THEN r.val ELSE st.err,
     calls |-> st.calls \o r.calls,
     req |-> st.req \cup r.req]

\* The loop of decode_dataclass over fields(cls), from field i on.  st holds
\* obj_dict (what is left of the copy of d), init_args and non_init_args.
DecodeFields(cls, i, st, reg, ch) ==
    IF i > Len(fields(cls)) \/ IsErr(st.err) THEN st
    ELSE IF DictIndex(st.obj_dict, PyStr(fields(cls)[i].name)) = 0
    THEN DecodeFields(cls, i + 1, st, reg, ch)
    ELSE DecodeFields(cls, i + 1,
             Consume(st, fields(cls)[i],
                     decode_field(fields(cls)[i],
                                  st.obj_dict[DictIndex(st.obj_dict,
                                                  PyStr(fields(cls)[i].name))].xs[2],
                                  reg, ch)),
             reg, ch)

\* A faulty end of decode_dataclass that drops the keys no field consumed.
Instantiate_dropping(cls, st) ==
    IF IsErr(st.err) THEN Res(st.err, st.calls, st.req)
    ELSE Res(Construct(cls, st.init_args, st.non_init_args), st.calls, st.req)

\* The end of decode_dataclass, after the loop over the fields: what is left
\* of the copy of d is extra_args, an error; else the instance is built.
Instantiate(cls, st) ==
    IF IsErr(st.err) THEN Res(st.err, st.calls, st.req)
    ELSE IF st.obj_dict # <<>>
    THEN Res(Raise("Exception", "The fields do not belong to the class",
                   <<PyDict(st.obj_dict)>>), st.calls, st.req)
    ELSE Res(Construct(cls, st.init_args, st.non_init_args), st.calls, st.req)

\* A faulty test that takes None for a mapping like any other value.
is_None_never(d) == FALSE

\* d is None
is_None(d) == d = PyNone

decode_dataclass(cls, d, reg, ch) ==
    IF is_None(d) THEN Res(PyNone, <<>>, {})
    ELSE IF d.t \notin {"dict", "list"}
        \* d.copy()
        THEN Res(Raise("AttributeError", "object has no attribute 'copy'", <<d>>), <<>>, {})
    ELSE IF d.t = "list"
        \* `name in obj_dict` looks the name up among the items; pop(name) raises
        THEN IF \E i \in DOMAIN fields(cls), j \in DOMAIN d.xs :
                    PyEq(d.xs[j], PyStr(fields(cls)[i].name))
             THEN Res(Raise("TypeError", "list.pop index", <<d>>), <<>>, {})
             ELSE IF d.xs # <<>>
             THEN Res(Raise("Exception", "The fields do not belong to the class", <<d>>),
                      <<>>, {})
             ELSE Res(Construct(cls, <<>>, <<>>), <<>>, {})
    ELSE Instantiate(cls,
             DecodeFields(cls, 1,
                 [obj_dict |-> d.xs, init_args |-> <<>>, non_init_args |-> <<>>,
                  err |-> PyNone, calls |-> <<>>, req |-> {}],
                 reg, ch))

\* [decode_item(v) for v in val]
_decode_list(fn, val, reg, ch) ==
    IF val.t # "list"
    THEN Res(Raise("AssertionError", "type(val) == list", <<val>>), <<>>, {})
    ELSE Gathered("list", RunEach([i \in DOMAIN val.xs |-> fn.subs[1]], val.xs, reg, ch,
                                  Res(<<>>, <<>>, {})))

\* set(r) for the result r of parse_list_fn(val)
SetOf(r) ==
    IF IsErr(r.val) THEN r
    ELSE IF \E i \in DOMAIN r.val.xs : ~Hashable(r.val.xs[i])
    THEN Res(Raise("TypeError", "unhashable type", <<r.val>>), r.calls, r.req)
    ELSE Res(PySet(Distinct(r.val.xs, <<>>)), r.calls, r.req)

\* set(parse_list_fn(val))
_decode_set(fn, val, reg, ch) == SetOf(Run(fn.subs[1], val, reg, ch))

\* A faulty _decode_tuple that follows the note in the source instead of its
\* code: no check of the length, the last type decodes the values beyond it.
_decode_tuple_last_type(fn, val, reg, ch) ==
    IF ~Iterable(val)
    THEN Res(Raise("TypeError", "object is not iterable", <<val>>), <<>>, {})
    ELSE Gathered("tuple",
             RunEach([i \in DOMAIN Iter(val) |->
                         fn.subs[IF i <= Len(fn.subs) THEN i ELSE Len(fn.subs)]],
                     Iter(val), reg, ch, Res(<<>>, <<>>, {})))

\* _decode_tuple: one function for every item, or one function per position
\* and a TypeError when the length differs from the number of functions.
_decode_tuple(fn, val, reg, ch) ==
    LET has_ellipsis == fn.id = "ellipsis"
        decoding_fns == fn.subs
    IN  IF has_ellipsis
        THEN IF ~Iterable(val)
             THEN Res(Raise("TypeError", "object is not iterable", <<val>>), <<>>, {})
             ELSE Gathered("tuple",
                      RunEach([i \in DOMAIN Iter(val) |-> decoding_fns[1]], Iter(val),
                              reg, ch, Res(<<>>, <<>>, {})))
        ELSE IF ~Iterable(val)
             THEN Res(Raise("TypeError", "object has no len()", <<val>>), <<>>, {})
        ELSE IF Len(decoding_fns) # Len(Iter(val))
             THEN Res(Raise("TypeError", "Trying to decode values for a predfined Tuple",
                            <<PyInt(Len(Iter(val))), PyInt(Len(decoding_fns))>>), <<>>, {})
        ELSE Gathered("tuple",
                 RunEach(decoding_fns, Iter(val), reg, ch, Res(<<>>, <<>>, {})))

\* k_ = decode_k(k); v_ = decode_v(v); result[k_] = v_, where rk and rv are
\* the results of the two calls and acc.val the dict filled so far
DictInsert(acc, rk, rv) ==
    IF IsErr(rk.val) THEN After(acc, rk)
    ELSE IF IsErr(rv.val) THEN After(After(acc, rk), rv)
    ELSE IF ~Hashable(rk.val)
    THEN After(After(acc, rk),
               Res(Raise("TypeError", "unhashable type", <<rk.val>>), rv.calls, rv.req))
    ELSE After(After(acc, rk),
               Res(PyDict(DictSet(acc.val.xs, rk.val, rv.val)), rv.calls, rv.req))

\* for k, v in items: ...; acc.val is the dict filled so far, or the
\* exception raised.
DictEach(fn, pairs, reg, ch, i, acc) ==
    IF i > Len(pairs) \/ IsErr(acc.val) THEN acc
    ELSE DictEach(fn, pairs, reg, ch, i + 1,
                  DictInsert(acc, Run(fn.subs[1], pairs[i][1], reg, ch),
                             Run(fn.subs[2], pairs[i][2], reg, ch)))

_decode_dict(fn, val, reg, ch) ==
    IF val.t \notin {"dict", "list"}
    THEN Res(Raise("AttributeError", "object has no attribute 'items'", <<val>>), <<>>, {})
    ELSE IF val.t = "list" /\ \E i \in DOMAIN val.xs :
                ~(Iterable(val.xs[i]) /\ Len(Iter(val.xs[i])) = 2)
    THEN Res(Raise("ValueError", "cannot unpack item into (k, v)", <<val>>), <<>>, {})
    ELSE DictEach(fn,
                  IF val.t = "list" THEN [i \in DOMAIN val.xs |-> Iter(val.xs[i])]
                  ELSE [i \in DOMAIN val.xs |-> val.xs[i].xs],
                  reg, ch, 1, Res(PyDict(<<>>), <<>>, {}))

\* the result r of the body of a decoding function, after the call of it
Called(fn, r) == Res(r.val, <<Call(fn)>> \o r.calls, r.req)

\* Calling the decoding function fn on val.
Run(fn, val, reg, ch) ==
    CASE fn.f = "registered" -> Called(fn, Res(CallDecoder(fn.id, val), <<>>, {}))
      [] fn.f = "decode_dataclass" -> Called(fn, decode_dataclass(fn.id, val, reg, ch))
      [] fn.f = "no_op" -> Called(fn, Res(val, <<>>, {}))
      [] fn.f = "_decode_dict" -> Called(fn, _decode_dict(fn, val, reg, ch))
      [] fn.f = "_decode_set" -> Called(fn, _decode_set(fn, val, reg, ch))
      [] fn.f = "_decode_tuple" -> Called(fn, _decode_tuple(fn, val, reg, ch))
      [] fn.f = "_decode_list" -> Called(fn, _decode_list(fn, val, reg, ch))
      [] fn.f = "_decode_optional" -> Called(fn, _decode_optional(fn, val, reg, ch))
      [] fn.f = "_try_functions" -> Called(fn, _try_functions(fn, val, reg, ch))
      [] fn.f = "enum" -> Called(fn, Res(EnumCall(fn.id, val), <<>>, {}))

(***************************************************************************)
(* The encode engine: encode dispatches on the runtime type of the value.  *)
(***************************************************************************)
RECURSIVE encode(_)
RECURSIVE EncodeDictEach(_, _, _)

\* the loop of encode_dict over obj.items(), from entry i on
EncodeDictEach(items, i, result) ==
    IF i > Len(items) \/ IsErr(result) THEN result
    ELSE LET k_ == encode(items[i].xs[1])
             v_ == encode(items[i].xs[2])
         IN  IF IsErr(k_) THEN k_
             ELSE IF IsErr(v_) THEN v_
             ELSE IF k_.t \notin {"list", "dict", "set"}
             \* isinstance(k_, Hashable): result[k_] = v_
             THEN IF result.t = "dict"
                  THEN EncodeDictEach(items, i + 1, PyDict(DictSet(result.xs, k_, v_)))
                  \* result has become a list: list.__setitem__
                  ELSE IF k_.t \notin {"int", "bool"}
                  THEN Raise("TypeError", "list indices must be integers", <<k_>>)
                  ELSE IF k_.n >= Len(result.xs)
                  THEN Raise("IndexError", "list assignment index out of range", <<k_>>)
                  ELSE EncodeDictEach(items, i + 1,
                           PyList([result.xs EXCEPT ![k_.n + 1] = v_]))
             ELSE LET aslist ==
                          IF result.t = "dict"
                          THEN [j \in DOMAIN result.xs |-> PyTuple(result.xs[j].xs)]
                          ELSE result.xs
                  IN  EncodeDictEach(items, i + 1,
                          PyList(Append(aslist, PyTuple(<<k_, v_>>))))

encode_dict(obj) == EncodeDictEach(obj.xs, 1, PyDict(<<>>))

encode_enum(obj) == PyStr(obj.c)

\* the dataclass branch of encode: d[field.name] = encode(getattr(obj, field.name))
EncodeDataclass(obj) ==
    LET fs == fields(obj.s)
        attr(name) == {i \in DOMAIN obj.xs : obj.xs[i].c = name}
        unset == {i \in DOMAIN fs : attr(fs[i].name) = {}}
        enc == [i \in DOMAIN fs |->
                   IF i \in unset THEN PyNone
                   ELSE encode(obj.xs[CHOOSE j \in attr(fs[i].name) : TRUE].xs[1])]
        bad == unset \cup {i \in DOMAIN fs : IsErr(enc[i])}
        first == CHOOSE i \in bad : \A j \in bad : i <= j
    IN  IF bad = {}
        THEN PyDict([i \in DOMAIN fs |-> PyItem(PyStr(fs[i].name), enc[i])])
        ELSE IF first \in unset
        THEN Raise("AttributeError", "object has no attribute", <<PyStr(fs[first].name)>>)
        ELSE enc[first]

\* the else branch of encode: no handler is registered for type(obj)
no_parser_silent(obj) == obj

no_parser(obj) == Raise("Exception", "No parser for object", <<obj>>)

encode(obj) ==
    CASE obj.t = "dict" -> encode_dict(obj)
      [] obj.t = "enum" -> encode_enum(obj)
      [] obj.t \in {"str", "float", "int", "bool"} -> obj
      [] obj.t \in {"list", "tuple", "set"} ->
            LET enc == [i \in DOMAIN obj.xs |-> encode(obj.xs[i])]
            IN  IF AnyErr(enc) THEN FirstErr(enc) ELSE PyList(enc)
      [] obj.t = "object" -> EncodeDataclass(obj)
      [] obj.t = "none" -> PyNone
      [] OTHER -> no_parser(obj)

(***************************************************************************)
(* The inputs of the decode engine.                                        *)
(***************************************************************************)
SeqsUpTo(S, n) == UNION {[1..k -> S] : k \in 0..n}

cOne == <<"1">>
cHalf == <<"1", ".", "5">>

Ints == {PyInt(n) : n \in 0..MaxInt}

Scalars ==
    Ints \cup {PyNone, PyBool(TRUE), PyFloat(3), PyStr(cBob), PyStr(cOne), PyStr(cHalf),
               PyStr(cRed)}

ListItems == {PyInt(1), PyInt(2), PyStr(cBob), PyNone}

ChildDict == PyDict(<<PyItem(PyStr(<<"n">>), PyStr(cBob))>>)

ChildDictExtra ==
    PyDict(<<PyItem(PyStr(<<"n">>), PyStr(cBob)), PyItem(PyStr(<<"q">>), PyInt(1))>>)

RawValues ==
    Scalars
    \cup {PyList(xs) : xs \in SeqsUpTo(ListItems, MaxLen)}
    \cup {PyList(<<PyList(<<PyInt(1), PyInt(2)>>)>>), PyDict(<<>>), ChildDict,
          ChildDictExtra,
          PyDict(<<PyItem(PyInt(1), PyInt(2))>>),
          PyList(<<PyList(<<PyStr(cBob), PyInt(2)>>)>>)}

\* the raw values tried for the fields of a dataclass
FieldValues ==
    {PyInt(1), PyStr(cBob), PyNone, PyList(<<PyInt(1), PyInt(2)>>), ChildDict,
     ChildDictExtra}

\* a key that names no field of any dataclass of the model
UnknownKey == <<"q">>

\* The raw mappings tried for dataclass cls: every choice of keys among the
\* names of its fields and the unknown key, with every choice of values.
RawMappings(cls) ==
    LET fs == fields(cls)
        keys == [i \in 1..(Len(fs) + 1) |->
                    IF i <= Len(fs) THEN fs[i].name ELSE UnknownKey]
        absent == V("absent", 0, "", <<>>, <<>>)
        entries(f) == SelectSeq([i \in DOMAIN keys |-> IF f[i] = absent THEN absent
                                                     ELSE PyItem(PyStr(keys[i]), f[i])],
                                LAMBDA e : e # absent)
    IN  {PyDict(entries(f)) : f \in [DOMAIN keys -> FieldValues \cup {absent}]}

Annotations ==
    {TInt, TFloat, TStr, TBool, TAny, TPlain("Plain"), TEnum("Color"),
     TList(TInt), TBareList, TList(TPlain("Plain")), TList(TTuple(<<TInt, TInt>>)),
     TSet(TInt), TDict(TStr, TInt), TBareDict, TDict(TStr, TOptional(TInt)),
     TTuple(<<TInt, TInt>>), TTuple(<<TInt, TStr, TFloat>>), TTuple(<<TInt, TEllipsis>>),
     TTuple(<<>>), TTuple(<<TInt>>),
     TOptional(TInt), TOptional(TData("Child")), TOptional(TList(TInt)),
     TUnion(<<TFloat, TStr>>), TUnion(<<TInt, TFloat>>), TUnion(<<TInt, TList(TInt)>>),
     TUnion(<<TInt, TList(TInt), TNone>>), TUnion(<<TInt, TPlain("Plain")>>),
     TUnion(<<TList(TInt), TTuple(<<TInt, TInt>>), TData("Child")>>)}

DecodeInputs ==
    {<<t, v>> : t \in Annotations, v \in RawValues}
    \cup UNION {{<<TData(cls), v>> :
                    v \in RawMappings(cls) \cup {PyNone, PyList(<<>>), PyInt(1)}} :
                        cls \in DataclassNames \ {"SomeClass", "Sub", "Config"}}

RECURSIVE Products(_)
\* the sequences that take their i-th item from sets[i]
Products(sets) ==
    IF sets = <<>> THEN {<<>>}
    ELSE {<<x>> \o rest : x \in Head(sets), rest \in Products(Tail(sets))}

RECURSIVE InstancesOf(_)
\* The values of an annotation: what a field declared with it may hold.
InstancesOf(t) ==
    CASE t = TInt -> Ints
      [] t = TFloat -> {PyFloat(h) : h \in {0, 2, 3}}
      [] t = TStr -> {PyStr(<<>>), PyStr(cBob), PyStr(cOne)}
      [] t = TBool -> {PyBool(TRUE), PyBool(FALSE)}
      [] t = TNone -> {PyNone}
      [] is_enum(t) -> {PyEnum(t.name, EnumMembers(t.name)[i].name) :
                            i \in DOMAIN EnumMembers(t.name)}
      [] is_list(t) -> {PyList(xs) : xs \in SeqsUpTo(InstancesOf(t.args[1]), MaxItems)}
      [] is_set(t) ->
            {PySet(xs) : xs \in {ys \in SeqsUpTo(InstancesOf(t.args[1]), MaxItems) :
                                    \A i, j \in DOMAIN ys : i < j => ys[i].n < ys[j].n}}
      [] is_tuple(t) ->
            IF \E i \in DOMAIN t.args : t.args[i] = TEllipsis
            THEN {PyTuple(xs) : xs \in SeqsUpTo(InstancesOf(t.args[1]), MaxItems)}
            ELSE {PyTuple(xs) : xs \in Products([i \in DOMAIN t.args |->
                                                    InstancesOf(t.args[i])])}
      [] is_dict(t) ->
            {PyDict(<<>>)} \cup
            {PyDict(<<PyItem(k, v)>>) :
                k \in InstancesOf(t.args[1]), v \in InstancesOf(t.args[2])}
      [] is_union(t) -> UNION {InstancesOf(t.args[i]) : i \in DOMAIN t.args}
      [] is_dataclass(t) ->
            LET fs == SelectSeq(fields(t.name), LAMBDA f : f.init \/ f.default # MISSING)
            IN  {PyObj(t.name, [i \in DOMAIN fs |-> PyAttr(fs[i].name, xs[i])]) :
                    xs \in Products([i \in DOMAIN fs |-> InstancesOf(fs[i].type)])}
      [] OTHER -> {}

\* Derived has a field that __init__ does not set: there is no instance of it
\* to encode until something has set the field.
RoundTripInputs ==
    UNION {{<<TData(cls), x>> : x \in InstancesOf(TData(cls))} :
                cls \in DataclassNames \ {"Derived", "Config"}}

\* an instance of a class that pyrallis knows nothing about
PyPlain == V("instance", 0, "Plain", <<>>, <<>>)

\* the keys and the values of the mappings handed to encode
EncodeKeys ==
    {PyInt(0), PyStr(cRed), PyEnum("Color", cRed), PyTuple(<<PyInt(1), PyInt(2)>>),
     PyPlain}

EncodeValues ==
    {PyInt(1), PyNone, PyPlain, PyList(<<PyPlain>>), PyTuple(<<PyInt(1)>>)}

\* the mappings handed to encode: entries in every order, keys distinct
EncodeMappings ==
    {PyDict(es) : es \in
        {xs \in SeqsUpTo({PyItem(k, v) : k \in EncodeKeys, v \in EncodeValues}, MaxEntries) :
            \A i, j \in DOMAIN xs : i < j => ~PyEq(xs[i].xs[1], xs[j].xs[1])}}

\* the values handed to encode: mappings, containers, instances and scalars,
\* with and without a value of an unknown class inside
EncodeInputs ==
    EncodeMappings
    \cup EncodeValues
    \cup {PyEnum("Color", cBlue), PyStr(cBob), PyFloat(3), PyBool(TRUE)}
    \cup {V(k, 0, "", <<>>, xs) : k \in {"list", "tuple"},
                                   xs \in SeqsUpTo(EncodeValues, MaxEntries)}
    \cup {PySet(xs) : xs \in {ys \in SeqsUpTo(EncodeValues, MaxEntries) :
                                /\ \A i \in DOMAIN ys : Hashable(ys[i])
                                /\ \A i, j \in DOMAIN ys : i < j => ~PyEq(ys[i], ys[j])}}
    \cup {PyObj("Required", <<PyAttr(<<"a">>, v)>>) : v \in EncodeValues \cup EncodeMappings}
    \cup {PyObj("Parent", <<PyAttr(<<"c">>, PyObj("Child", <<PyAttr(<<"n">>, v)>>))>>) :
              v \in EncodeValues}

NoCache == [t \in {} |-> t]

(***************************************************************************)
(* options.py: the process-wide format selector Options._config_type, a    *)
(* member of the enumeration ConfigType, YAML when the module is imported. *)
(***************************************************************************)
cYAML == <<"Y", "A", "M", "L">>
cJSON == <<"J", "S", "O", "N">>
cTOML == <<"T", "O", "M", "L">>

YAML == PyEnum("ConfigType", cYAML)
JSON == PyEnum("ConfigType", cJSON)
TOML == PyEnum("ConfigType", cTOML)

ConfigType == {YAML, JSON, TOML}

NoScopes == <<>>

(***************************************************************************)
(* parsers/registry_utils.py: what withregistry(base_func) closes over.    *)
(* cache_token is None (no token) or the token of the abc module it saw    *)
(* last, held as a set of at most one token.                               *)
(***************************************************************************)
NoRegistry ==
    [registry |-> [c \in {} |-> c], dispatch_cache |-> [c \in {} |-> c],
     cache_token |-> {}]

(***************************************************************************)
(* The decode engine as a state machine: a process starts with the         *)
(* registry of decoding.py and an empty cache, and calls decode once, on a *)
(* raw value or on the encoding of an instance.                            *)
(***************************************************************************)
NoParser == [config_class |-> "", config_path |-> PyNone]
NoFiles == <<>>
NoCli == <<>>
NoMerged == <<>>

InitDecode ==
    /\ \/ \E i \in DecodeInputs : op = "call decode" /\ typ = i[1] /\ raw = i[2]
       \/ \E i \in RoundTripInputs : op = "call roundtrip" /\ typ = i[1] /\ raw = i[2]
       \/ \E x \in EncodeInputs : op = "call encode" /\ typ = TAny /\ raw = x
    /\ out = PyNone
    /\ used = <<>>
    /\ registry = InitRegistry
    /\ cache = NoCache
    /\ parser = NoParser
    /\ files = NoFiles
    /\ cli = NoCli
    /\ merged = NoMerged
    /\ config_type = YAML
    /\ scopes = NoScopes
    /\ wr = NoRegistry /\ abc = {} /\ config_dict = PyNone

\* The cache after a call that resolved the annotations req.
Cached(ch, reg, req) ==
    [t \in DOMAIN ch \cup req |-> IF t \in DOMAIN ch THEN ch[t] ELSE Resolve(t, reg, ch)]

\* decode(typ, raw)
Decode ==
    /\ op = "call decode"
    /\ \E r \in {decode(typ, raw, registry, cache)} :
           /\ out' = r.val
           /\ used' = r.calls
           /\ cache' = Cached(cache, registry, r.req)
    /\ op' = "decode"
    /\ UNCHANGED <<config_dict, wr, abc, config_type, scopes, typ, raw, registry, parser, files, cli, merged>>

\* decode(t, e) for the result e of encode, which may have raised
DecodeEncoded(t, e, reg, ch) ==
    IF IsErr(e) THEN Res(e, <<>>, {}) ELSE decode(t, e, reg, ch)

\* decode(type(x), encode(x)) for the instance x held in raw
RoundTrip ==
    /\ op = "call roundtrip"
    /\ \E r \in {DecodeEncoded(typ, encode(raw), registry, cache)} :
           /\ out' = r.val
           /\ used' = r.calls
           /\ cache' = Cached(cache, registry, r.req)
    /\ op' = "roundtrip"
    /\ UNCHANGED <<config_dict, wr, abc, config_type, scopes, typ, raw, registry, parser, files, cli, merged>>

\* encode(raw)
Encode ==
    /\ op = "call encode"
    /\ out' = encode(raw)
    /\ op' = "encode"
    /\ UNCHANGED <<config_dict, wr, abc, config_type, scopes, typ, raw, used, registry, cache, parser, files, cli, merged>>

NextDecode == Decode \/ RoundTrip \/ Encode

SpecDecode == InitDecode /\ [][NextDecode]_vars


(***************************************************************************)
(* Decoding and registering decoders in any order.  get_decoding_fn is     *)
(* wrapped in lru_cache(maxsize=100): what it returned for an annotation   *)
(* is returned again, and decode.register does not touch the cache.  The   *)
(* model holds fewer than 100 annotations, so no entry is ever evicted.    *)
(***************************************************************************)
\* the classes a caller registers decoders for
Registrable == {"int", "Plain"}

\* the calls decode(t, raw_value) of the caller
CacheInputs ==
    {<<TInt, PyStr(cOne)>>,
     <<TList(TInt), PyList(<<PyStr(cOne)>>)>>,
     <<TOptional(TInt), PyStr(cOne)>>,
     <<TData("Required"), PyDict(<<PyItem(PyStr(<<"a">>), PyStr(cOne))>>)>>,
     <<TPlain("Plain"), PyStr(cBob)>>}

InitCache ==
    /\ op = "import" /\ typ = TAny /\ raw = PyNone /\ out = PyNone /\ used = <<>>
    /\ registry = InitRegistry /\ cache = NoCache
    /\ parser = NoParser /\ files = NoFiles /\ cli = NoCli /\ merged = NoMerged
    /\ config_type = YAML /\ scopes = NoScopes
    /\ wr = NoRegistry /\ abc = {} /\ config_dict = PyNone

\* decode.register(cls, fn)
Register ==
    \E cls \in Registrable, id \in CustomDecoders :
        /\ registry' = [registry EXCEPT ![cls] = id]
        /\ op' = "register"
        /\ UNCHANGED <<config_dict, wr, abc, config_type, scopes, typ, raw, out, used, cache, parser, files, cli, merged>>

\* decode(t, raw_value), with what earlier calls left in the cache
CachedDecode ==
    \E i \in CacheInputs :
        \E r \in {decode(i[1], i[2], registry, cache)} :
            /\ typ' = i[1] /\ raw' = i[2]
            /\ out' = r.val /\ used' = r.calls
            /\ cache' = Cached(cache, registry, r.req)
            /\ op' = "decode"
            /\ UNCHANGED <<config_dict, wr, abc, config_type, scopes, registry, parser, files, cli, merged>>

NextCache == Register \/ CachedDecode

SpecCache == InitCache /\ [][NextCache]_vars

\* C2: a decode after any decodes and registrations uses the decoders
\* registered at the time of the call, for the annotation and for the
\* annotations under it: it gives what a decode with nothing memoised gives.
C2_RegistrationTakesEffect ==
    op = "decode" =>
        LET fresh == decode(typ, raw, registry, NoCache)
        IN  out = fresh.val /\ used = fresh.calls

(***************************************************************************)
(* ArgumentParser: the values of the command line, parsed as YAML, laid    *)
(* over the flattened content of the config file, then deflattened and     *)
(* decoded.  Strings are sequences of characters, so that the dotted keys  *)
(* are joined and split as the code joins and splits them.                 *)
(***************************************************************************)
RECURSIVE split(_, _)
\* str.split(sep) for a separator of one character
split(c, sep) ==
    IF \A i \in DOMAIN c : c[i] # sep THEN <<c>>
    ELSE LET i == CHOOSE k \in DOMAIN c : c[k] = sep /\ \A j \in 1..(k - 1) : c[j] # sep
         IN  <<SubSeq(c, 1, i - 1)>> \o split(SubSeq(c, i + 1, Len(c)), sep)

RECURSIVE strip(_)
\* str.strip(): without the spaces at both ends
strip(c) ==
    IF c # <<>> /\ Head(c) = " " THEN strip(Tail(c))
    ELSE IF c # <<>> /\ c[Len(c)] = " " THEN strip(SubSeq(c, 1, Len(c) - 1))
    ELSE c

cNull == <<"n", "u", "l", "l">>
cTrue == <<"t", "r", "u", "e">>
cFalse == <<"f", "a", "l", "s", "e">>

RECURSIVE safe_load(_)

\* the entry of a YAML flow mapping written as the text "key: value"
FlowEntry(c) ==
    IF Len(split(c, ":")) # 2
    THEN Raise("ValueError", "yaml: not a mapping entry", <<PyStr(c)>>)
    ELSE PyItem(safe_load(split(c, ":")[1]), safe_load(split(c, ":")[2]))

\* yaml.safe_load of the text of one command-line value, for the YAML the
\* model writes: null, booleans, numbers of one digit, flow sequences and
\* flow mappings of those, and plain strings.
safe_load(text) ==
    LET c == strip(text)
        inner == SubSeq(c, 2, Len(c) - 1)
        parts == IF strip(inner) = <<>> THEN <<>> ELSE split(inner, ",")
    IN  CASE c = <<>> \/ c = cNull \/ c = <<"~">> -> PyNone
          [] c = cTrue -> PyBool(TRUE)
          [] c = cFalse -> PyBool(FALSE)
          [] IsIntLiteral(c) -> PyInt(DigitValue(c[1]))
          [] IsHalfLiteral(c) ->
                PyFloat(2 * DigitValue(c[1]) + (IF c[3] = "5" THEN 1 ELSE 0))
          [] Len(c) >= 2 /\ c[1] = "[" /\ c[Len(c)] = "]" ->
                PyList([i \in DOMAIN parts |-> safe_load(parts[i])])
          [] Len(c) >= 2 /\ c[1] = "{" /\ c[Len(c)] = "}" ->
                IF AnyErr([i \in DOMAIN parts |-> FlowEntry(parts[i])])
                THEN FirstErr([i \in DOMAIN parts |-> FlowEntry(parts[i])])
                ELSE PyDict([i \in DOMAIN parts |-> FlowEntry(parts[i])])
          [] OTHER -> PyStr(c)

(***************************************************************************)
(* parsers/config_parsers.py and cfgparsing.py: the string-to-value        *)
(* coercion of each format, for the texts the model writes (no quotes, so  *)
(* no JSON or TOML string and no JSON object key can be written).          *)
(***************************************************************************)
RECURSIVE json_loads(_)
\* json.loads(text): the value, or JSONDecodeError
json_loads(text) ==
    LET c == strip(text)
        inner == SubSeq(c, 2, Len(c) - 1)
        parts == IF strip(inner) = <<>> THEN <<>> ELSE split(inner, ",")
    IN  CASE c = cNull -> PyNone
          [] c = cTrue -> PyBool(TRUE)
          [] c = cFalse -> PyBool(FALSE)
          [] IsIntLiteral(c) -> PyInt(DigitValue(c[1]))
          [] IsHalfLiteral(c) ->
                PyFloat(2 * DigitValue(c[1]) + (IF c[3] = "5" THEN 1 ELSE 0))
          [] Len(c) >= 2 /\ c[1] = "[" /\ c[Len(c)] = "]" ->
                IF AnyErr([i \in DOMAIN parts |-> json_loads(parts[i])])
                THEN FirstErr([i \in DOMAIN parts |-> json_loads(parts[i])])
                ELSE PyList([i \in DOMAIN parts |-> json_loads(parts[i])])
          [] Len(c) >= 2 /\ c[1] = "{" /\ c[Len(c)] = "}" /\ strip(inner) = <<>> ->
                PyDict(<<>>)
          [] OTHER -> Raise("ValueError", "JSONDecodeError", <<PyStr(text)>>)

RECURSIVE toml_loads(_)

\* the entry of a TOML inline table written as the text "key = value"
TomlEntry(c) ==
    IF Len(split(c, "=")) # 2 \/ strip(split(c, "=")[1]) = <<>>
    THEN Raise("ValueError", "TomlDecodeError", <<PyStr(c)>>)
    ELSE IF IsErr(toml_loads(split(c, "=")[2])) THEN toml_loads(split(c, "=")[2])
    ELSE PyItem(PyStr(strip(split(c, "=")[1])), toml_loads(split(c, "=")[2]))

\* toml.loads('val = ' + text)['val']: the value, or TomlDecodeError
toml_loads(text) ==
    LET c == strip(text)
        inner == SubSeq(c, 2, Len(c) - 1)
        parts == IF strip(inner) = <<>> THEN <<>> ELSE split(inner, ",")
    IN  CASE c = cTrue -> PyBool(TRUE)
          [] c = cFalse -> PyBool(FALSE)
          [] IsIntLiteral(c) -> PyInt(DigitValue(c[1]))
          [] IsHalfLiteral(c) ->
                PyFloat(2 * DigitValue(c[1]) + (IF c[3] = "5" THEN 1 ELSE 0))
          [] Len(c) >= 2 /\ c[1] = "[" /\ c[Len(c)] = "]" ->
                IF AnyErr([i \in DOMAIN parts |-> toml_loads(parts[i])])
                THEN FirstErr([i \in DOMAIN parts |-> toml_loads(parts[i])])
                ELSE PyList([i \in DOMAIN parts |-> toml_loads(parts[i])])
          [] Len(c) >= 2 /\ c[1] = "{" /\ c[Len(c)] = "}" ->
                IF AnyErr([i \in DOMAIN parts |-> TomlEntry(parts[i])])
                THEN FirstErr([i \in DOMAIN parts |-> TomlEntry(parts[i])])
                ELSE PyDict([i \in DOMAIN parts |-> TomlEntry(parts[i])])
          [] OTHER -> Raise("ValueError", "TomlDecodeError", <<PyStr(text)>>)

YAMLParser_parse_string(s) == safe_load(s)

\* try: return json.loads(s); except JSONDecodeError: return s
JSONParser_parse_string(s) == IF IsErr(json_loads(s)) THEN PyStr(s) ELSE json_loads(s)

\* try: return toml.loads(f'val = {s}')['val']; except TomlDecodeError: return s
TOMLParser_parse_string(s) == IF IsErr(toml_loads(s)) THEN PyStr(s) ELSE toml_loads(s)

\* cfgparsing.parse_string with Options.get_config_type() = selector
parse_string(selector, s) ==
    CASE selector = JSON -> JSONParser_parse_string(s)
      [] selector = TOML -> TOMLParser_parse_string(s)
      [] OTHER -> YAMLParser_parse_string(s)

RECURSIVE FromItems(_, _)
\* dict(items): a key that comes again keeps its place and takes the later value
FromItems(items, acc) ==
    IF items = <<>> THEN acc
    ELSE FromItems(Tail(items), DictSet(acc, Head(items).xs[1], Head(items).xs[2]))

\* A faulty update that keeps the value of a for a key both have.
dict_update_keeping(a, b) == FromItems(a, b)

\* a.update(b)
dict_update(a, b) == FromItems(b, a)

\* the prefix that argparsing.py flattens the file under and the name of the
\* root group of the parser, utils.BASE_KEY:
\* no prefix, the destinations being the dotted paths of the fields
BASE_KEY == PyStr(<<>>)

RECURSIVE FlattenItems(_, _, _, _)
\* The loop of flatten over d.items(), from entry i on: the (new_key, v)
\* pairs in the order they are collected.
FlattenItems(items, i, parent_key, sep) ==
    IF i > Len(items) THEN <<>>
    ELSE LET k == items[i].xs[1]
             v == items[i].xs[2]
             \* parent_key + sep + k if parent_key else k
             new_key == IF parent_key = PyNone \/ parent_key.c = <<>> THEN k
                        ELSE PyStr(parent_key.c \o <<sep>> \o k.c)
         IN  (IF v.t = "dict" THEN FlattenItems(v.xs, 1, new_key, sep)
              ELSE <<PyItem(new_key, v)>>)
             \o FlattenItems(items, i + 1, parent_key, sep)

flatten(d, parent_key, sep) ==
    IF d.t # "dict"
    THEN Raise("AttributeError", "object has no attribute 'items'", <<d>>)
    ELSE PyDict(FromItems(FlattenItems(d.xs, 1, parent_key, sep), <<>>))

RECURSIVE SetPath(_, _, _)
\* The inner loop of deflatten and the assignment after it: the dict curr_d
\* with value v stored under the path key_parts, dicts made where the path
\* has none.  Anything but a dict on the path makes the assignment raise.
SetPath(curr_d, key_parts, v) ==
    IF curr_d.t # "dict"
    THEN Raise("TypeError", "object does not support item assignment", <<curr_d>>)
    ELSE IF Len(key_parts) = 1 THEN PyDict(DictSet(curr_d.xs, PyStr(key_parts[1]), v))
    ELSE LET inner_key == PyStr(key_parts[1])
             at == DictIndex(curr_d.xs, inner_key)
             under == SetPath(IF at = 0 THEN PyDict(<<>>) ELSE curr_d.xs[at].xs[2],
                              Tail(key_parts), v)
         IN  IF IsErr(under) THEN under
             ELSE PyDict(DictSet(curr_d.xs, inner_key, under))

RECURSIVE DeflattenEach(_, _, _, _)
\* the loop of deflatten over the keys of d, from entry i on
DeflattenEach(items, i, sep, deflat_d) ==
    IF i > Len(items) \/ IsErr(deflat_d) THEN deflat_d
    ELSE DeflattenEach(items, i + 1, sep,
                       SetPath(deflat_d, split(items[i].xs[1].c, sep), items[i].xs[2]))

deflatten(d, sep) ==
    IF IsErr(d) THEN d ELSE DeflattenEach(d.xs, 1, sep, PyDict(<<>>))

\* the destinations of the command-line options
cA == <<"A">>
cB == <<"B">>
cNoFile == <<"N">>

\* yaml.full_load(open(config_path, 'r')) with the files fs on the disk
full_load(fs, config_path) ==
    IF config_path.t = "str" /\ config_path.c \in DOMAIN fs THEN fs[config_path.c]
    ELSE Raise("FileNotFoundError", "No such file or directory", <<config_path>>)

\* for key in parsed_arg_values: parsed_arg_values[key] = yaml.safe_load(...)
LoadValues(parsed_args) ==
    [i \in DOMAIN parsed_args |->
        PyItem(parsed_args[i].xs[1], safe_load(parsed_args[i].xs[2].c))]

\* The config file _postprocessing reads: the one the command line names
\* with --CONFIG, and only when it names none the one the parser was made with.
ConfigPath(self, parsed_arg_values) ==
    IF DictIndex(parsed_arg_values, PyStr(CONFIG)) # 0
    THEN parsed_arg_values[DictIndex(parsed_arg_values, PyStr(CONFIG))].xs[2]
    ELSE self.config_path

\* yaml_args = flatten(full_load(...)); yaml_args.update(parsed_arg_values)
Overlay(yaml_args, parsed_arg_values) ==
    IF IsErr(yaml_args) THEN yaml_args
    ELSE PyDict(dict_update(yaml_args.xs, parsed_arg_values))

\* The flat mapping that _postprocessing deflattens, from the values of the
\* command line already parsed as YAML.
FlatArgs(self, parsed_arg_values, fs) ==
    IF ConfigPath(self, parsed_arg_values) = PyNone
    THEN PyDict(DictDel(parsed_arg_values, PyStr(CONFIG)))
    ELSE IF IsErr(full_load(fs, ConfigPath(self, parsed_arg_values)))
    THEN full_load(fs, ConfigPath(self, parsed_arg_values))
    ELSE Overlay(flatten(full_load(fs, ConfigPath(self, parsed_arg_values)),
                         BASE_KEY, "."),
                 DictDel(parsed_arg_values, PyStr(CONFIG)))

\* cfg = decoding.decode(self.config_class, deflat_d)
Decoded(self, deflat_d, reg, ch) ==
    [deflat_d |-> deflat_d,
     cfg |-> IF IsErr(deflat_d) THEN Res(deflat_d, <<>>, {})
             ELSE decode(TData(self.config_class), deflat_d, reg, ch)]

_postprocessing(self, parsed_args, fs, reg, ch) ==
    Decoded(self, deflatten(FlatArgs(self, LoadValues(parsed_args), fs), "."), reg, ch)

Absent == V("absent", 0, "", <<>>, <<>>)

RECURSIVE Lookup(_, _)
\* d[k1][k2]... for the keys of the path parts, Absent where a key is missing
Lookup(d, parts) ==
    IF parts = <<>> THEN d
    ELSE IF d.t # "dict" \/ DictIndex(d.xs, PyStr(Head(parts))) = 0 THEN Absent
    ELSE Lookup(d.xs[DictIndex(d.xs, PyStr(Head(parts)))].xs[2], Tail(parts))

\* the value a nested mapping holds at a dotted key
At(d, key) == Lookup(d, split(key.c, "."))

\* the entries of a sequence of optional entries that are there
Entries(opt) == SelectSeq(opt, LAMBDA e : e # PyNone)

Str(c) == PyStr(c)

\* The contents of a config file for Config, a mapping with any of the keys
\* a, s (with any of x and y) and d, every leaf holding n.
FileContents(n) ==
    {PyDict(Entries(<<a, s_, d>>)) :
        a \in {PyNone, PyItem(Str(<<"a">>), PyInt(n))},
        s_ \in {PyNone} \cup
               {PyItem(Str(<<"s">>), PyDict(Entries(<<x, y>>))) :
                    x \in {PyNone, PyItem(Str(<<"x">>), PyInt(n))},
                    y \in {PyNone, PyItem(Str(<<"y">>), PyInt(n))}},
        d \in {PyNone, PyItem(Str(<<"d">>), PyDict(<<PyItem(Str(<<"k">>), PyInt(n))>>))}}

\* the files on the disk: A holds 1 at its leaves, B holds 2 at a and s.x
Disks ==
    {[p \in {cA, cB} |-> IF p = cA THEN fa ELSE fb] :
        fa \in FileContents(1),
        fb \in {f \in FileContents(2) :
                    /\ At(f, Str(<<"d">>)) = Absent
                    /\ At(f, Str(<<"s", ".", "y">>)) = Absent
                    /\ At(f, Str(<<"s">>)) # PyDict(<<>>)}}

\* The values argparse has parsed from a command line, each the text given
\* for a destination: any of --a, --s.x, --d and --CONFIG.
CommandLines ==
    {Entries(<<a, sx, d, c>>) :
        a \in {PyNone, PyItem(Str(<<"a">>), Str(<<"0">>)), PyItem(Str(<<"a">>), Str(cBob))},
        sx \in {PyNone, PyItem(Str(<<"s", ".", "x">>), Str(<<"0">>))},
        d \in {PyNone,
               PyItem(Str(<<"d">>), Str(<<"{", "j", ":", " ", "0", "}">>))},
        c \in {PyNone, PyItem(Str(CONFIG), Str(cA)), PyItem(Str(CONFIG), Str(cB)),
               PyItem(Str(CONFIG), Str(cNoFile))}}

InitMerge ==
    /\ op = "start" /\ typ = TData("Config") /\ raw = PyNone /\ out = PyNone
    /\ used = <<>> /\ registry = InitRegistry /\ cache = NoCache
    /\ parser = NoParser /\ cli = NoCli /\ merged = NoMerged
    /\ files \in Disks
    /\ config_type \in ConfigType /\ scopes = NoScopes
    /\ wr = NoRegistry /\ abc = {} /\ config_dict = PyNone

\* ArgumentParser(config_class=Config, config_path=...)
NewParser ==
    /\ op = "start"
    /\ \E config_path \in {PyNone, Str(cA), Str(cB)} :
            parser' = [config_class |-> "Config", config_path |-> config_path]
    /\ op' = "parser"
    /\ UNCHANGED <<config_dict, wr, abc, config_type, scopes, typ, raw, out, used, registry, cache, files, cli, merged>>

\* parser.parse_args(args): argparse, then _postprocessing
ParseArgs ==
    /\ op = "parser"
    /\ \E parsed_args \in CommandLines :
         \E r \in {_postprocessing(parser, parsed_args, files, registry, cache)} :
            /\ cli' = parsed_args
            /\ merged' = r.deflat_d
            /\ out' = r.cfg.val
            /\ used' = r.cfg.calls
            /\ cache' = Cached(cache, registry, r.cfg.req)
    /\ op' = "parsed"
    /\ UNCHANGED <<config_dict, wr, abc, config_type, scopes, typ, raw, registry, parser, files>>

NextMerge == NewParser \/ ParseArgs

SpecMerge == InitMerge /\ [][NextMerge]_vars

(***************************************************************************)
(* Optional groups: a parser for GrandParent, whose fields n and m are     *)
(* optional Family groups, each with the optional groups c and d, reading  *)
(* a config file and a command line that name leaves of the groups.        *)
(***************************************************************************)
\* the contents of the config file
GroupFiles ==
    {PyDict(<<>>),
     PyDict(<<PyItem(Str(<<"n">>), PyNone)>>),
     PyDict(<<PyItem(Str(<<"n">>), PyDict(<<>>))>>),
     PyDict(<<PyItem(Str(<<"n">>), PyDict(<<PyItem(Str(<<"c">>), PyNone)>>))>>),
     PyDict(<<PyItem(Str(<<"n">>),
                     PyDict(<<PyItem(Str(<<"c">>),
                                     PyDict(<<PyItem(Str(<<"n">>), Str(cBob))>>))>>))>>),
     PyDict(<<PyItem(Str(<<"n">>),
                     PyDict(<<PyItem(Str(<<"d">>),
                                     PyDict(<<PyItem(Str(<<"y">>), PyInt(1))>>))>>)),
              PyItem(Str(<<"m">>), PyNone)>>),
     PyDict(<<PyItem(Str(<<"m">>),
                     PyDict(<<PyItem(Str(<<"d">>),
                                     PyDict(<<PyItem(Str(<<"b">>), Str(cBob))>>))>>))>>)}

\* the values argparse has parsed from a command line: any of --n.c.n,
\* --n.d.y, --m.c.n, --m.d.b and --m.d.y
GroupCommandLines ==
    {Entries(<<ncn, ndy, mcn, mdb, mdy>>) :
        ncn \in {PyNone, PyItem(Str(<<"n", ".", "c", ".", "n">>), Str(cBob))},
        ndy \in {PyNone, PyItem(Str(<<"n", ".", "d", ".", "y">>), Str(<<"1">>))},
        mcn \in {PyNone, PyItem(Str(<<"m", ".", "c", ".", "n">>), Str(cBob))},
        mdb \in {PyNone, PyItem(Str(<<"m", ".", "d", ".", "b">>), Str(cBob))},
        mdy \in {PyNone, PyItem(Str(<<"m", ".", "d", ".", "y">>), Str(<<"0">>))}}

InitGroups ==
    /\ op = "start" /\ typ = TData("GrandParent") /\ raw = PyNone /\ out = PyNone
    /\ used = <<>> /\ registry = InitRegistry /\ cache = NoCache
    /\ parser = NoParser /\ cli = NoCli /\ merged = NoMerged
    /\ \E f \in GroupFiles : files = [p \in {cA} |-> f]
    /\ config_type = YAML /\ scopes = NoScopes
    /\ wr = NoRegistry /\ abc = {} /\ config_dict = PyNone

\* ArgumentParser(config_class=GrandParent, config_path=...)
NewGroupParser ==
    /\ op = "start"
    /\ \E config_path \in {PyNone, Str(cA)} :
            parser' = [config_class |-> "GrandParent", config_path |-> config_path]
    /\ op' = "parser"
    /\ UNCHANGED <<config_dict, wr, abc, config_type, scopes, typ, raw, out, used, registry, cache,
                   files, cli, merged>>

\* parser.parse_args(args): argparse, then _postprocessing
ParseGroups ==
    /\ op = "parser"
    /\ \E parsed_args \in GroupCommandLines :
         \E r \in {_postprocessing(parser, parsed_args, files, registry, cache)} :
            /\ cli' = parsed_args
            /\ merged' = r.deflat_d
            /\ out' = r.cfg.val
            /\ used' = r.cfg.calls
            /\ cache' = Cached(cache, registry, r.cfg.req)
    /\ op' = "parsed"
    /\ UNCHANGED <<config_dict, wr, abc, config_type, scopes, typ, raw, registry, parser, files>>

NextGroups == NewGroupParser \/ ParseGroups

SpecGroups == InitGroups /\ [][NextGroups]_vars

(***************************************************************************)
(* cfgparsing.dump: the instance is encoded and, with omit_defaults, the   *)
(* leaves that match the defaults are removed; the mapping is then handed  *)
(* to save_config.  What is loaded from the file is decoded by load.       *)
(***************************************************************************)
RECURSIVE get_defaults_dict(_)
\* utils.get_defaults_dict for an instance of dataclass c
get_defaults_dict(c) ==
    PyDict(Entries([i \in DOMAIN fields(c) |->
        IF is_dataclass_type(fields(c)[i].type)
        THEN PyItem(PyStr(fields(c)[i].name), get_defaults_dict(fields(c)[i].type.name))
        ELSE IF fields(c)[i].default # MISSING
        THEN PyItem(PyStr(fields(c)[i].name), fields(c)[i].default)
        ELSE PyNone]))

RECURSIVE RemoveEach(_, _, _)
\* the loop of remove_matching over the keys of dict_b, from entry i on
RemoveEach(dict_a, dict_b, i) ==
    IF i > Len(dict_b) THEN dict_a
    ELSE RemoveEach(
             IF /\ DictIndex(dict_a, dict_b[i].xs[1]) # 0
                /\ PyEq(dict_b[i].xs[2],
                        dict_a[DictIndex(dict_a, dict_b[i].xs[1])].xs[2])
             THEN DictDel(dict_a, dict_b[i].xs[1])
             ELSE dict_a,
             dict_b, i + 1)

\* utils.remove_matching
remove_matching(dict_a, dict_b) ==
    deflatten(PyDict(RemoveEach(flatten(dict_a, PyNone, ".").xs,
                                flatten(dict_b, PyNone, ".").xs, 1)), ".")

\* cfgparsing.dump(config, omit_defaults=...): the mapping for save_config
dump(config, omit_defaults) ==
    IF IsErr(encode(config)) THEN encode(config)
    ELSE IF omit_defaults
    THEN remove_matching(encode(config), encode(get_defaults_dict(config.s)))
    ELSE encode(config)

\* the instances dumped: of dataclasses with scalar, optional and nested
\* fields, and of SomeClass with its mapping empty, with a plain key and with
\* a key that holds a dot
DumpInputs ==
    UNION {{<<TData(cls), x>> : x \in InstancesOf(TData(cls))} :
                cls \in {"Scalars", "Nested", "Parent", "Bob", "Preset"}}
    \cup {<<TData("SomeClass"),
            PyObj("SomeClass", <<PyAttr(<<"d">>, d), PyAttr(<<"l">>, l)>>)>> :
              d \in {PyDict(<<>>), PyDict(<<PyItem(PyStr(cBob), PyInt(1))>>),
                     PyDict(<<PyItem(PyStr(cHalf), PyInt(1))>>)},
              l \in {PyList(<<>>), PyList(<<PyTuple(<<PyInt(1), PyInt(2)>>)>>)}}

InitDump ==
    /\ \E i \in DumpInputs : typ = i[1] /\ raw = i[2]
    /\ op = "call dump" /\ out = PyNone /\ used = <<>>
    /\ registry = InitRegistry /\ cache = NoCache
    /\ parser = NoParser /\ files = NoFiles /\ cli = NoCli /\ merged = NoMerged
    /\ config_type = YAML /\ scopes = NoScopes
    /\ wr = NoRegistry /\ abc = {} /\ config_dict = PyNone

\* dump(raw, omit_defaults=...)
Dump ==
    /\ op = "call dump"
    /\ \E omit_defaults \in BOOLEAN :
         /\ config_dict' = dump(raw, omit_defaults)
         /\ op' = IF omit_defaults THEN "dump omit_defaults" ELSE "dump"
    /\ UNCHANGED <<wr, abc, config_type, scopes, typ, raw, out, used, registry, cache,
                   parser, files, cli, merged>>

\* load(typ, stream) of what dump has written: decode(typ, config_dict)
Load ==
    /\ op \in {"dump", "dump omit_defaults"}
    /\ ~IsErr(config_dict)
    /\ \E r \in {decode(typ, config_dict, registry, cache)} :
           /\ out' = r.val
           /\ used' = r.calls
           /\ cache' = Cached(cache, registry, r.req)
    /\ op' = IF op = "dump" THEN "load" ELSE "load omit_defaults"
    /\ UNCHANGED <<wr, abc, config_type, scopes, typ, raw, registry, parser, files, cli,
                   merged, config_dict>>

NextDump == Dump \/ Load

SpecDump == InitDump /\ [][NextDump]_vars

(***************************************************************************)
(* Decoding the same mapping object twice.  The raw value is an object of  *)
(* the caller: what a decoding function does to it is seen by the next     *)
(* call.  decode_dataclass pops the keys from obj_dict, a copy of d, and   *)
(* the other decoding functions build new containers.                      *)
(***************************************************************************)
\* A faulty obj_dict = d, without the copy: the pops are done on d itself.
after_pop_shared(d, popped) ==
    PyDict(SelectSeq(d.xs, LAMBDA e : \A i \in DOMAIN popped : e.xs[1] # PyStr(popped[i])))

\* obj_dict = d.copy(): the mapping d after the keys popped were popped from
\* obj_dict
after_pop(d, popped) == d

RECURSIVE ArgAfter(_, _, _, _)
RECURSIVE TriedAfter(_, _, _, _, _)

\* the fields of cls that the loop of decode_dataclass pops from obj_dict:
\* those d holds, up to the first whose value fails to decode
Popped(cls, d, reg, ch) ==
    LET fs == fields(cls)
        held == {i \in DOMAIN fs : DictIndex(d.xs, PyStr(fs[i].name)) # 0}
        failed == {i \in held :
                      IsErr(decode_field(fs[i],
                                d.xs[DictIndex(d.xs, PyStr(fs[i].name))].xs[2], reg, ch).val)}
    IN  {i \in held : \A j \in failed : i <= j}

\* the mapping d of the caller after decode_dataclass(cls, d)
DataclassArgAfter(cls, d, reg, ch) ==
    IF d.t # "dict" THEN d
    ELSE LET fs == fields(cls)
             popped == Popped(cls, d, reg, ch)
             field(k) == CHOOSE i \in DOMAIN fs : PyStr(fs[i].name) = k
             seen(e) == \E i \in popped : PyStr(fs[i].name) = e.xs[1]
         IN  after_pop(
                 PyDict([j \in DOMAIN d.xs |->
                     IF seen(d.xs[j])
                        /\ ~Failed(get_decoding_fn(fs[field(d.xs[j].xs[1])].type, reg, ch))
                     THEN PyItem(d.xs[j].xs[1],
                                 ArgAfter(get_decoding_fn(fs[field(d.xs[j].xs[1])].type,
                                                          reg, ch),
                                          d.xs[j].xs[2], reg, ch))
                     ELSE d.xs[j]]),
                 [i \in 1..Len(SelectSeq(fs, LAMBDA f : \E k \in popped : fs[k] = f)) |->
                     SelectSeq(fs, LAMBDA f : \E k \in popped : fs[k] = f)[i].name])

\* val after the functions funcs[i..] of _try_functions were tried on it,
\* up to the first that returns
TriedAfter(funcs, i, val, reg, ch) ==
    IF i > Len(funcs) THEN val
    ELSE IF ~IsErr(Run(funcs[i], val, reg, ch).val) THEN ArgAfter(funcs[i], val, reg, ch)
    ELSE TriedAfter(funcs, i + 1, ArgAfter(funcs[i], val, reg, ch), reg, ch)

\* The raw value val of the caller after the decoding function fn was
\* called on it.
ArgAfter(fn, val, reg, ch) ==
    CASE fn.f = "decode_dataclass" -> DataclassArgAfter(fn.id, val, reg, ch)
      [] fn.f = "_decode_optional" ->
            IF val = PyNone THEN val ELSE ArgAfter(fn.subs[1], val, reg, ch)
      [] fn.f = "_try_functions" -> TriedAfter(fn.subs, 1, val, reg, ch)
      [] fn.f = "_decode_list" /\ val.t = "list" ->
            PyList([i \in DOMAIN val.xs |-> ArgAfter(fn.subs[1], val.xs[i], reg, ch)])
      [] fn.f = "_decode_dict" /\ val.t = "dict" ->
            PyDict([i \in DOMAIN val.xs |->
                       PyItem(val.xs[i].xs[1],
                              ArgAfter(fn.subs[2], val.xs[i].xs[2], reg, ch))])
      [] OTHER -> val

\* the mappings decoded twice: for dataclasses with scalar, nested, optional
\* and container fields, and nested two levels deep
RedecodeInputs ==
    UNION {{<<TData(cls), v>> : v \in RawMappings(cls)} :
                cls \in {"Required", "Nested", "Parent"}}
    \cup {<<TData("SomeClass"), PyDict(Entries(<<d, l>>))>> :
              d \in {PyNone} \cup
                    {PyItem(Str(<<"d">>), v) :
                        v \in {PyDict(<<>>), PyDict(<<PyItem(Str(cBob), PyInt(1))>>),
                               PyDict(<<PyItem(Str(cBob), Str(cBob))>>)}},
              l \in {PyNone} \cup
                    {PyItem(Str(<<"l">>), v) :
                        v \in {PyList(<<>>), PyList(<<PyList(<<PyInt(1), PyInt(2)>>)>>),
                               PyList(<<PyList(<<PyInt(1)>>)>>)}}}
    \cup {<<TData("GrandParent"), v>> : v \in GroupFiles}

InitRedecode ==
    /\ \E i \in RedecodeInputs : typ = i[1] /\ raw = i[2]
    /\ op = "call decode" /\ out = PyNone /\ used = <<>>
    /\ registry = InitRegistry /\ cache = NoCache
    /\ parser = NoParser /\ files = NoFiles /\ cli = NoCli /\ merged = NoMerged
    /\ config_type = YAML /\ scopes = NoScopes
    /\ wr = NoRegistry /\ abc = {} /\ config_dict = PyNone

\* decode(typ, raw), for the first time and again, raw being left as the
\* decoding functions leave it
DecodeMapping ==
    /\ op \in {"call decode", "decode"}
    /\ \E r \in {decode(typ, raw, registry, cache)} :
           /\ out' = r.val
           /\ used' = r.calls
           /\ cache' = Cached(cache, registry, r.req)
    /\ raw' = ArgAfter(get_decoding_fn(typ, registry, cache), raw, registry, cache)
    /\ op' = IF op = "call decode" THEN "decode" ELSE "decode again"
    /\ UNCHANGED <<wr, abc, config_type, scopes, typ, registry, parser, files, cli, merged,
                   config_dict>>

NextRedecode == DecodeMapping

SpecRedecode == InitRedecode /\ [][NextRedecode]_vars

(***************************************************************************)
(* The order of the strategies of get_decoding_fn: decoders registered for *)
(* a dataclass, an enum and a class that no strategy matches, and decodes  *)
(* of these and of annotations over them, in any order.                    *)
(***************************************************************************)
\* the classes a caller registers a decoder for
DecodersFor == {"Required", "Color", "Plain"}

\* the calls decode(t, raw_value) of the caller
DispatchInputs ==
    {<<TData("Required"), PyDict(<<PyItem(PyStr(<<"a">>), PyStr(cOne))>>)>>,
     <<TEnum("Color"), PyStr(cRed)>>,
     <<TPlain("Plain"), PyStr(cBob)>>,
     <<TList(TPlain("Plain")), PyList(<<PyStr(cBob)>>)>>,
     <<TOptional(TData("Required")), PyDict(<<PyItem(PyStr(<<"a">>), PyStr(cOne))>>)>>,
     <<TInt, PyStr(cOne)>>}

InitDispatch ==
    /\ op = "import" /\ typ = TAny /\ raw = PyNone /\ out = PyNone /\ used = <<>>
    /\ registry = InitRegistry /\ cache = NoCache
    /\ parser = NoParser /\ files = NoFiles /\ cli = NoCli /\ merged = NoMerged
    /\ config_type = YAML /\ scopes = NoScopes
    /\ wr = NoRegistry /\ abc = {} /\ config_dict = PyNone

\* decode.register(cls, fn)
RegisterDecoder ==
    \E cls \in DecodersFor :
        /\ registry' = [registry EXCEPT ![cls] = "decA"]
        /\ op' = "register"
        /\ UNCHANGED <<config_dict, wr, abc, config_type, scopes, typ, raw, out, used, cache,
                       parser, files, cli, merged>>

\* decode(t, raw_value), with what earlier calls left in the cache
DispatchDecode ==
    \E i \in DispatchInputs :
        \E r \in {decode(i[1], i[2], registry, cache)} :
            /\ typ' = i[1] /\ raw' = i[2]
            /\ out' = r.val /\ used' = r.calls
            /\ cache' = Cached(cache, registry, r.req)
            /\ op' = "decode"
            /\ UNCHANGED <<config_dict, wr, abc, config_type, scopes, registry, parser, files,
                           cli, merged>>

NextDispatch == RegisterDecoder \/ DispatchDecode

SpecDispatch == InitDispatch /\ [][NextDispatch]_vars

(***************************************************************************)
(* Dataclasses with a field that is not part of __init__: a mapping is     *)
(* decoded and the instance is encoded.  Derived leaves the field unset,   *)
(* Computed assigns it in __post_init__.                                   *)
(***************************************************************************)
InitNonInit ==
    /\ \E cls \in {"Derived", "Computed"} :
            /\ typ = TData(cls)
            /\ raw \in RawMappings(cls)
    /\ op = "call decode" /\ out = PyNone /\ used = <<>>
    /\ registry = InitRegistry /\ cache = NoCache
    /\ parser = NoParser /\ files = NoFiles /\ cli = NoCli /\ merged = NoMerged
    /\ config_type = YAML /\ scopes = NoScopes
    /\ wr = NoRegistry /\ abc = {} /\ config_dict = PyNone

\* encode(out) for the instance that decode returned
EncodeDecoded ==
    /\ op = "decode" /\ out.t = "object"
    /\ config_dict' = encode(out)
    /\ op' = "encode"
    /\ UNCHANGED <<wr, abc, config_type, scopes, typ, raw, out, used, registry, cache, parser,
                   files, cli, merged>>

NextNonInit == Decode \/ EncodeDecoded

SpecNonInit == InitNonInit /\ [][NextNonInit]_vars

(***************************************************************************)
(* utils.flatten and utils.deflatten, one after the other, on nested and   *)
(* on flat mappings.                                                       *)
(***************************************************************************)
\* the keys of the nested mappings and of the flat mappings
NestedKeys == <<<<>>, <<"a">>, <<"a", ".", "b">>>>
FlatKeys == <<<<>>, <<"a">>, <<"b">>, <<"a", ".", "b">>, <<".", "b">>>>

\* the mappings that hold some of the keys, in their order, with values of vals
MappingsOver(keys, vals) ==
    {PyDict(Entries([i \in DOMAIN keys |-> IF f[i] = Absent THEN PyNone
                                           ELSE PyItem(PyStr(keys[i]), f[i])])) :
        f \in [DOMAIN keys -> vals \cup {Absent}]}

\* mappings nested two deep, empty ones included
NestedMappings == MappingsOver(NestedKeys, {PyInt(1)} \cup MappingsOver(NestedKeys, {PyInt(1)}))

FlatMappings == MappingsOver(FlatKeys, {PyInt(1), PyInt(2)})

InitFlatten ==
    /\ \/ op = "nested" /\ raw \in NestedMappings
       \/ op = "flat" /\ raw \in FlatMappings
    /\ typ = TAny /\ out = PyNone /\ used = <<>>
    /\ registry = InitRegistry /\ cache = NoCache
    /\ parser = NoParser /\ files = NoFiles /\ cli = NoCli /\ merged = NoMerged
    /\ config_type = YAML /\ scopes = NoScopes
    /\ wr = NoRegistry /\ abc = {} /\ config_dict = PyNone

\* deflatten(flatten(d))
FlattenDeflatten ==
    /\ op = "nested"
    /\ out' = deflatten(flatten(raw, PyNone, "."), ".")
    /\ op' = "deflatten(flatten(d))"
    /\ UNCHANGED <<config_dict, wr, abc, config_type, scopes, typ, raw, used, registry, cache,
                   parser, files, cli, merged>>

\* flatten(deflatten(f))
DeflattenFlatten ==
    /\ op = "flat"
    /\ out' = flatten(deflatten(raw, "."), PyNone, ".")
    /\ op' = "flatten(deflatten(f))"
    /\ UNCHANGED <<config_dict, wr, abc, config_type, scopes, typ, raw, used, registry, cache,
                   parser, files, cli, merged>>

NextFlatten == FlattenDeflatten \/ DeflattenFlatten

SpecFlatten == InitFlatten /\ [][NextFlatten]_vars

(***************************************************************************)
(* The argument registrar: ArgumentParser.add_arguments, _add_descendants  *)
(* and wrappers/dataclass_wrapper.py.  A DataclassWrapper is held as the   *)
(* dataclass it wraps, its name and the names of its parents, root first;  *)
(* its children follow from the fields of the dataclass.                   *)
(***************************************************************************)
MaxGroups == 3   \* the most groups registered with add_arguments on a parser
MaxWrappers == 6 \* _preprocessing is not called on a parser that holds more wrappers

get_item_type(t) == IF t.args = <<>> THEN TAny ELSE t.args[1]

is_tuple_or_list(t) == is_list(t) \/ is_tuple(t)

is_tuple_or_list_of_dataclasses(t) ==
    is_tuple_or_list(t) /\ is_dataclass_type(get_item_type(t))

RECURSIVE contains_dataclass_type_arg(_)
contains_dataclass_type_arg(t) ==
    IF is_dataclass_type(t) THEN TRUE
    ELSE IF is_tuple_or_list_of_dataclasses(t) THEN TRUE
    ELSE IF is_union(t)
    THEN \E i \in DOMAIN get_type_arguments(t) :
            contains_dataclass_type_arg(get_type_arguments(t)[i])
    ELSE FALSE

RECURSIVE get_dataclass_type_arg(_)
\* the first dataclass among the type arguments, TNone standing for None
get_dataclass_type_arg(t) ==
    IF ~contains_dataclass_type_arg(t) THEN TNone
    ELSE IF is_dataclass_type(t) THEN t
    ELSE IF is_tuple_or_list(t) \/ is_union(t)
    THEN LET args == get_type_arguments(t)
             found == {i \in DOMAIN args : get_dataclass_type_arg(args[i]) # TNone}
         IN  IF found = {} THEN TNone
             ELSE get_dataclass_type_arg(
                      args[CHOOSE i \in found : \A j \in found : i <= j])
    ELSE TNone

\* the branch that the loop of DataclassWrapper.__init__ takes for a field
FieldKind(field) ==
    IF ~field.init THEN "skipped"
    ELSE IF is_tuple_or_list_of_dataclasses(field.type) THEN "raise"
    ELSE IF is_dataclass(field.type) THEN "child"
    ELSE IF contains_dataclass_type_arg(field.type) THEN "optional child"
    ELSE "field"

\* the dataclass that the child wrapper of a field wraps
ChildClass(field) ==
    IF is_dataclass(field.type) THEN field.type.name
    ELSE get_dataclass_type_arg(field.type).name

\* the second branch of the loop of DataclassWrapper.__init__
NotImplemented(field) == FieldKind(field) = "raise"

RECURSIVE InitFields(_, _)
\* The loop of DataclassWrapper.__init__ over the fields of dataclass from
\* field i on, the constructors of the child wrappers included: the
\* NotImplementedError it raises, PyNone when it raises none.
InitFields(dataclass, i) ==
    IF i > Len(fields(dataclass)) THEN PyNone
    ELSE IF NotImplemented(fields(dataclass)[i])
    THEN Raise("NotImplementedError", "container of a dataclass type",
               <<PyStr(fields(dataclass)[i].name)>>)
    ELSE IF FieldKind(fields(dataclass)[i]) \in {"child", "optional child"}
            /\ IsErr(InitFields(ChildClass(fields(dataclass)[i]), 1))
    THEN InitFields(ChildClass(fields(dataclass)[i]), 1)
    ELSE InitFields(dataclass, i + 1)

\* DataclassWrapper(dataclass, name, parent=...), lineage naming the parents
DataclassWrapper(dataclass, name, lineage) ==
    [dataclass |-> dataclass, name |-> name, lineage |-> lineage]

IsChild(field) == FieldKind(field) \in {"child", "optional child"}

\* self._children
_children(w) ==
    LET fs == SelectSeq(fields(w.dataclass), IsChild)
    IN  [i \in DOMAIN fs |->
            DataclassWrapper(ChildClass(fs[i]), fs[i].name, Append(w.lineage, w.name))]

RECURSIVE DescendantsOf(_)
\* the descendants of the wrappers ws, each child followed by its own
DescendantsOf(ws) ==
    IF ws = <<>> THEN <<>>
    ELSE <<Head(ws)>> \o DescendantsOf(_children(Head(ws))) \o DescendantsOf(Tail(ws))

\* DataclassWrapper.descendants
descendants(w) == DescendantsOf(_children(w))

RECURSIVE join(_, _)
\* sep.join(names)
join(names, sep) ==
    IF names = <<>> THEN <<>>
    ELSE IF Len(names) = 1 THEN names[1]
    ELSE names[1] \o <<sep>> \o join(Tail(names), sep)

\* DataclassWrapper.dest
dest(w) == join(Append(w.lineage, w.name), ".")

\* the loop of add_arguments over self._wrappers
UsedDest(self, dest_) ==
    \E i \in DOMAIN self._wrappers : dest(self._wrappers[i]) = dest_

\* ArgumentParser.add_arguments(dataclass, dest): the parser afterwards and
\* the exception raised, PyNone when none is
add_arguments(self, dataclass, dest_) ==
    IF UsedDest(self, dest_)
    THEN [self |-> self,
          raised |-> Raise("ArgumentError", "Destination attribute is already used",
                           <<PyStr(dest_)>>)]
    ELSE IF IsErr(InitFields(dataclass, 1))
    THEN [self |-> self, raised |-> InitFields(dataclass, 1)]
    ELSE [self |-> [self EXCEPT !._wrappers =
                        Append(@, DataclassWrapper(dataclass, dest_, <<>>))],
          raised |-> PyNone]

RECURSIVE AllDescendants(_, _)
\* the loop of _add_descendants over self._wrappers, from wrapper i on
AllDescendants(ws, i) ==
    IF i > Len(ws) THEN <<>> ELSE descendants(ws[i]) \o AllDescendants(ws, i + 1)

\* ArgumentParser._add_descendants
_add_descendants(self) ==
    [self EXCEPT !._wrappers = @ \o AllDescendants(@, 1)]

\* The option string of a leaf field: two dashes and the dotted destination
\* path of the field, the root group, which has no name, adding nothing to it.
Option(path) == <<"-", "-">> \o join(SelectSeq(path, LAMBDA name : name # <<>>), ".")

\* the option strings that DataclassWrapper.add_arguments hands to
\* group.add_argument, one for each of self.fields
OptionStrings(w) ==
    LET fs == SelectSeq(fields(w.dataclass), LAMBDA f : FieldKind(f) = "field")
    IN  [i \in DOMAIN fs |-> Option(Append(Append(w.lineage, w.name), fs[i].name))]

RECURSIVE AllOptionStrings(_, _)
\* the option strings handed to add_argument by the loop of _preprocessing
\* over self._wrappers, from wrapper i on
AllOptionStrings(ws, i) ==
    IF i > Len(ws) THEN <<>> ELSE OptionStrings(ws[i]) \o AllOptionStrings(ws, i + 1)

\* argparse refuses an option string that is registered already
\* (conflict_handler='error'): the first of opts that it refuses, 0 when it
\* registers them all
Conflict(actions, opts) ==
    LET taken(i) == \/ \E j \in DOMAIN actions : actions[j] = opts[i]
                    \/ \E j \in 1..(i - 1) : opts[j] = opts[i]
    IN  IF \A i \in DOMAIN opts : ~taken(i) THEN 0
        ELSE CHOOSE i \in DOMAIN opts : taken(i) /\ \A j \in 1..(i - 1) : ~taken(j)

\* ArgumentParser._preprocessing: the parser afterwards and the exception
\* raised, PyNone when none is
_preprocessing(self) ==
    IF self._preprocessing_done THEN [self |-> self, raised |-> PyNone]
    ELSE LET added == _add_descendants(self)
             opts == AllOptionStrings(added._wrappers, 1)
             refused == Conflict(added._actions, opts)
         IN  IF refused = 0
             THEN [self |-> [added EXCEPT !._actions = @ \o opts,
                                          !._preprocessing_done = TRUE],
                   raised |-> PyNone]
             ELSE [self |-> [added EXCEPT !._actions = @ \o SubSeq(opts, 1, refused - 1)],
                   raised |-> Raise("ArgumentError", "conflicting option string",
                                    <<PyStr(opts[refused])>>)]

\* the schemas handed to ArgumentParser(config_class=...), the dataclasses
\* and the destinations handed to add_arguments
Schemas ==
    {"Required", "Config", "Parent", "Derived", "Group", "Outer", "Maybe", "Mixed",
     "MainClass", "Shout"}
Groups == {"Sub", "Config", "Group"}
Destinations == {<<"x">>, <<"x", ".", "s">>, <<"y">>}

InitRegistrar ==
    /\ op = "start" /\ typ = TAny /\ raw = PyNone /\ out = PyNone /\ used = <<>>
    /\ registry = InitRegistry /\ cache = NoCache
    /\ parser = NoParser /\ files = NoFiles /\ cli = NoCli /\ merged = NoMerged
    /\ config_type = YAML /\ scopes = NoScopes
    /\ wr = NoRegistry /\ abc = {} /\ config_dict = PyNone

\* ArgumentParser(config_class): the option --CONFIG, then
\* add_arguments(config_class, dest=utils.BASE_KEY)
NewArgumentParser ==
    /\ op = "start"
    /\ \E config_class \in Schemas :
         \E r \in {add_arguments([config_class |-> config_class, config_path |-> PyNone,
                                  _wrappers |-> <<>>, _preprocessing_done |-> FALSE,
                                  _actions |-> <<Option(<<CONFIG>>)>>],
                                 config_class, BASE_KEY.c)} :
            /\ typ' = TData(config_class)
            /\ out' = r.raised
            /\ parser' = IF IsErr(r.raised) THEN NoParser ELSE r.self
            /\ op' = IF IsErr(r.raised) THEN "init raised" ELSE "init"
    /\ UNCHANGED <<config_dict, wr, abc, config_type, scopes, raw, used, registry, cache, files, cli,
                   merged>>

\* parser.add_arguments(dataclass, dest), before the arguments are parsed
AddArguments ==
    /\ op \in {"init", "add_arguments", "add_arguments raised"}
    /\ Len(parser._wrappers) < MaxGroups
    /\ \E dataclass \in Groups, dest_ \in Destinations :
         \E r \in {add_arguments(parser, dataclass, dest_)} :
            /\ typ' = TData(dataclass)
            /\ raw' = PyStr(dest_)
            /\ out' = r.raised
            /\ parser' = r.self
            /\ op' = IF IsErr(r.raised) THEN "add_arguments raised" ELSE "add_arguments"
    /\ UNCHANGED <<config_dict, wr, abc, config_type, scopes, used, registry, cache, files, cli, merged>>

\* parser._preprocessing(), as parse_known_args and print_help call it
Preprocessing ==
    /\ op \in {"init", "add_arguments", "add_arguments raised", "_preprocessing",
                "_preprocessing raised"}
    /\ Len(parser._wrappers) <= MaxWrappers
    /\ \E r \in {_preprocessing(parser)} :
           /\ parser' = r.self
           /\ out' = r.raised
           /\ op' = IF IsErr(r.raised) THEN "_preprocessing raised" ELSE "_preprocessing"
    /\ UNCHANGED <<config_dict, wr, abc, config_type, scopes, typ, raw, used, registry, cache,
                   files, cli, merged>>

NextRegistrar == NewArgumentParser \/ AddArguments \/ Preprocessing

SpecRegistrar == InitRegistrar /\ [][NextRegistrar]_vars

(***************************************************************************)
(* parsers/registry_utils.py: withregistry.  The classes of the model are  *)
(* a chain Leaf(Mid), Mid(Base), Base(object), a class Free(object) and an *)
(* abstract base class Proto, of which Base and Leaf may be registered as  *)
(* virtual subclasses (Proto.register(cls)).                               *)
(***************************************************************************)
RegistryFunc(func, include_subclasses) ==
    [func |-> func, include_subclasses |-> include_subclasses]

\* the impl None
NoImpl == [func |-> "None", include_subclasses |-> FALSE]

\* cls.__mro__
mro(cls) ==
    CASE cls = "Leaf" -> <<"Leaf", "Mid", "Base", "object">>
      [] cls = "Mid" -> <<"Mid", "Base", "object">>
      [] cls = "Base" -> <<"Base", "object">>
      [] cls = "Free" -> <<"Free", "object">>
      [] cls = "Proto" -> <<"Proto", "object">>
      [] OTHER -> <<"object">>

\* hasattr(cls, '__abstractmethods__')
IsAbstract(cls) == cls = "Proto"

\* issubclass(cls, t), with the virtual subclasses virtual of Proto
issubclass(cls, t, virtual) ==
    \/ \E i \in DOMAIN mro(cls) : mro(cls)[i] = t
    \/ t = "Proto" /\ \E i \in DOMAIN mro(cls) : mro(cls)[i] \in virtual

\* functools._compose_mro(cls, types): the MRO of cls with the abstract
\* base classes of types that cls is a virtual subclass of; C3 puts Proto
\* right after the base-most class of the MRO that is registered with it.
_compose_mro(cls, types, virtual) ==
    LET real == mro(cls)
        at == {i \in DOMAIN real : real[i] \in virtual}
        last == CHOOSE i \in at : \A j \in at : j <= i
    IN  IF "Proto" \in types /\ cls # "Proto" /\ at # {}
        THEN SubSeq(real, 1, last) \o <<"Proto">> \o SubSeq(real, last + 1, Len(real))
        ELSE real

\* functools._find_impl(cls, registry): registry.get(match) for the first
\* class of the composed MRO that has a registration, None when none has
_find_impl(cls, impls, virtual) ==
    LET order == _compose_mro(cls, DOMAIN impls, virtual)
        hit == {i \in DOMAIN order : order[i] \in DOMAIN impls}
    IN  IF hit = {} THEN NoImpl
        ELSE impls[order[CHOOSE i \in hit : \A j \in hit : i <= j]]

\* abc.get_cache_token(): it changes with every ABCMeta.register
get_cache_token(virtual) == Cardinality(virtual)

\* The dispatch_cache that dispatch looks cls up in: cleared first when the
\* token of the abc module is not the one seen last.
Fresh(w, virtual) ==
    IF w.cache_token # {} /\ w.cache_token # {get_cache_token(virtual)}
    THEN [w EXCEPT !.dispatch_cache = [c \in {} |-> c],
                   !.cache_token = {get_cache_token(virtual)}]
    ELSE w

\* A faulty lookup that returns the inherited implementation whether or
\* not it was registered for subclasses.
Lookup_inheriting(cls, impls, virtual) ==
    IF cls \in DOMAIN impls THEN impls[cls]
    ELSE _find_impl(cls, impls, virtual)

\* the else branch of dispatch: the impl for a cls that is not cached
Lookup_impl(cls, impls, virtual) ==
    IF cls \in DOMAIN impls THEN impls[cls]
    ELSE IF ~_find_impl(cls, impls, virtual).include_subclasses THEN NoImpl
    ELSE _find_impl(cls, impls, virtual)

\* dispatch(cls): the closure afterwards and the impl returned
dispatch(w, cls, virtual) ==
    IF cls \in DOMAIN Fresh(w, virtual).dispatch_cache
    THEN [w |-> Fresh(w, virtual), impl |-> Fresh(w, virtual).dispatch_cache[cls]]
    ELSE [w |-> [Fresh(w, virtual) EXCEPT !.dispatch_cache =
                    [c \in DOMAIN Fresh(w, virtual).dispatch_cache \cup {cls} |->
                        IF c = cls THEN Lookup_impl(cls, w.registry, virtual)
                        ELSE Fresh(w, virtual).dispatch_cache[c]]],
          impl |-> Lookup_impl(cls, w.registry, virtual)]

\* A faulty register that leaves dispatch_cache as it is.
register_keeping_cache(w, cls, func, include_subclasses, virtual) ==
    [registry |-> [c \in DOMAIN w.registry \cup {cls} |->
                      IF c = cls THEN RegistryFunc(func, include_subclasses)
                      ELSE w.registry[c]],
     cache_token |-> IF w.cache_token = {} /\ IsAbstract(cls)
                     THEN {get_cache_token(virtual)} ELSE w.cache_token,
     dispatch_cache |-> w.dispatch_cache]

\* register(cls, func, include_subclasses): the closure afterwards
register(w, cls, func, include_subclasses, virtual) ==
    [registry |-> [c \in DOMAIN w.registry \cup {cls} |->
                      IF c = cls THEN RegistryFunc(func, include_subclasses)
                      ELSE w.registry[c]],
     cache_token |-> IF w.cache_token = {} /\ IsAbstract(cls)
                     THEN {get_cache_token(virtual)} ELSE w.cache_token,
     dispatch_cache |-> [c \in {} |-> c]]

\* the classes given to register, to dispatch and to Proto.register
Registered == {"Base", "Mid", "Proto"}
Dispatched == {"Base", "Mid", "Leaf", "Free"}
Virtual == {"Base", "Leaf"}
Funcs == {"f", "g"}

InitRegistryUtils ==
    /\ op = "import" /\ typ = TAny /\ raw = PyNone /\ out = PyNone /\ used = <<>>
    /\ registry = InitRegistry /\ cache = NoCache
    /\ parser = NoParser /\ files = NoFiles /\ cli = NoCli /\ merged = NoMerged
    /\ config_type = YAML /\ scopes = NoScopes
    /\ wr = NoRegistry /\ abc = {} /\ config_dict = PyNone

\* wrapper.register(cls, func, include_subclasses)
WithRegistryRegister ==
    \E cls \in Registered, func \in Funcs, include_subclasses \in BOOLEAN :
        /\ wr' = register(wr, cls, func, include_subclasses, abc)
        /\ raw' = PyStr(<<cls>>)
        /\ out' = PyStr(<<func>>)
        /\ op' = "register"
        /\ UNCHANGED <<config_dict, abc, config_type, scopes, typ, used, registry, cache, parser,
                       files, cli, merged>>

\* wrapper.dispatch(cls)
WithRegistryDispatch ==
    \E cls \in Dispatched :
        /\ wr' = dispatch(wr, cls, abc).w
        /\ raw' = PyStr(<<cls>>)
        /\ out' = PyStr(<<dispatch(wr, cls, abc).impl.func>>)
        /\ op' = "dispatch"
        /\ UNCHANGED <<config_dict, abc, config_type, scopes, typ, used, registry, cache, parser,
                       files, cli, merged>>

\* Proto.register(cls): cls becomes a virtual subclass of Proto
ABCRegister ==
    \E cls \in Virtual \ abc :
        /\ abc' = abc \cup {cls}
        /\ op' = "abc register"
        /\ UNCHANGED <<config_dict, wr, config_type, scopes, typ, raw, out, used, registry, cache,
                       parser, files, cli, merged>>

NextRegistryUtils == WithRegistryRegister \/ WithRegistryDispatch \/ ABCRegister

SpecRegistryUtils == InitRegistryUtils /\ [][NextRegistryUtils]_vars

(***************************************************************************)
(* options.py: set_config_type and the context manager config_type.  A     *)
(* caller sets the selector directly or enters and leaves config_type(...) *)
(* contexts, nested up to MaxDepth deep; the body of a context completes   *)
(* or raises, and may itself set the selector.                             *)
(***************************************************************************)
MaxDepth == 2    \* the most config_type(...) contexts open at a time

\* str.upper() on the letters of the format names
UpperOf(ch) ==
    CASE ch = "y" -> "Y" [] ch = "a" -> "A" [] ch = "m" -> "M" [] ch = "l" -> "L"
      [] ch = "j" -> "J" [] ch = "s" -> "S" [] ch = "o" -> "O" [] ch = "n" -> "N"
      [] ch = "t" -> "T" [] ch = "x" -> "X"
      [] OTHER -> ch

upper(c) == [i \in DOMAIN c |-> UpperOf(c[i])]

\* what callers pass as new_type: a member, or a name in either case, or a
\* name of no member
FormatArguments ==
    ConfigType \cup {PyStr(<<"y", "a", "m", "l">>), PyStr(<<"j", "s", "o", "n">>),
                     PyStr(<<"T", "o", "m", "l">>), PyStr(<<"x", "m", "l">>)}

\* Options.set_config_type(new_type): the new value of Options._config_type,
\* or the KeyError of ConfigType[...] for a name of no member
set_config_type(new_type) ==
    IF new_type.t = "str"
    THEN IF PyEnum("ConfigType", upper(new_type.c)) \in ConfigType
         THEN PyEnum("ConfigType", upper(new_type.c))
         ELSE Raise("KeyError", "ConfigType", <<PyStr(upper(new_type.c))>>)
    ELSE new_type

\* a faulty exit that leaves the selector as the body left it
config_type_finally_keep(current_type, selector) == selector

\* the finally clause of config_type: Options.set_config_type(current_type)
config_type_finally(current_type, selector) == set_config_type(current_type)

InitOptions ==
    /\ op = "import" /\ typ = TAny /\ raw = PyNone /\ out = PyNone /\ used = <<>>
    /\ registry = InitRegistry /\ cache = NoCache
    /\ parser = NoParser /\ files = NoFiles /\ cli = NoCli /\ merged = NoMerged
    /\ config_type = YAML /\ scopes = NoScopes
    /\ wr = NoRegistry /\ abc = {} /\ config_dict = PyNone

\* Options.set_config_type(new_type), called outside or inside a context
SetConfigType ==
    \E new_type \in FormatArguments :
        /\ raw' = new_type
        /\ IF IsErr(set_config_type(new_type))
           THEN out' = set_config_type(new_type) /\ config_type' = config_type
           ELSE out' = PyNone /\ config_type' = set_config_type(new_type)
        /\ op' = "set"
        /\ UNCHANGED <<config_dict, wr, abc, scopes, typ, used, registry, cache, parser, files, cli, merged>>

\* with config_type(new_type): up to the yield.  When set_config_type raises
\* inside the try, the finally clause puts current_type back and the body
\* is never entered.
EnterContext ==
    /\ Len(scopes) < MaxDepth
    /\ \E new_type \in FormatArguments :
        /\ raw' = new_type
        /\ IF IsErr(set_config_type(new_type))
           THEN /\ out' = set_config_type(new_type)
                /\ config_type' = config_type_finally(config_type, config_type)
                /\ scopes' = scopes
                /\ op' = "enter raised"
           ELSE /\ out' = PyNone
                /\ config_type' = set_config_type(new_type)
                /\ scopes' = <<[current_type |-> config_type,
                                new_type |-> set_config_type(new_type)]>> \o scopes
                /\ op' = "enter"
    /\ UNCHANGED <<config_dict, wr, abc, typ, used, registry, cache, parser, files, cli, merged>>

\* The innermost context is left, its body having completed or raised:
\* either way the finally clause runs.
ExitContext ==
    /\ scopes # <<>>
    /\ \E raised \in BOOLEAN :
        op' = IF raised THEN "exit raised" ELSE "exit"
    /\ config_type' = config_type_finally(Head(scopes).current_type, config_type)
    /\ scopes' = Tail(scopes)
    /\ UNCHANGED <<config_dict, wr, abc, typ, raw, out, used, registry, cache, parser, files, cli, merged>>

NextOptions == SetConfigType \/ EnterContext \/ ExitContext

SpecOptions == InitOptions /\ [][NextOptions]_vars

(***************************************************************************)
(* Properties of decode and of the round trip, on SpecDecode.              *)
(***************************************************************************)
\* the fields of cls that the mapping d holds a key for
Present(cls, d) ==
    {i \in DOMAIN fields(cls) : DictIndex(d.xs, PyStr(fields(cls)[i].name)) # 0}

\* the value the mapping d holds for field i of cls
ValueAt(cls, d, i) == d.xs[DictIndex(d.xs, PyStr(fields(cls)[i].name))].xs[2]

\* the entries of the mapping d whose key names no field of cls
ExtraItems(cls, d) ==
    SelectSeq(d.xs, LAMBDA e : \A i \in DOMAIN fields(cls) :
                                    e.xs[1] # PyStr(fields(cls)[i].name))

\* every value that d holds for a field of cls decodes against the field's type
FieldsDecode(cls, d) ==
    \A i \in Present(cls, d) :
        ~IsErr(decode(fields(cls)[i].type, ValueAt(cls, d, i), registry, cache).val)

DecodedMapping == op = "decode" /\ is_dataclass(typ) /\ raw.t = "dict"

IsOptional(t) == is_union(t) /\ \E i \in DOMAIN t.args : t.args[i] = TNone

Branches(t) == SelectSeq(t.args, LAMBDA b : b # TNone)

\* the dataclass that a field of type t nests, if it nests one
NestedClass(t) ==
    IF is_dataclass(t) THEN {t.name}
    ELSE IF is_union(t) THEN {t.args[i].name : i \in {j \in DOMAIN t.args :
                                                        is_dataclass(t.args[j])}}
    ELSE {}

\* C1: for every dataclass instance x whose fields hold supported types
\* (enums, unions and nested dataclasses included), decode(type(x), encode(x))
\* equals x.
C1_RoundTrip == op = "roundtrip" => PyEq(out, raw)

\* C6: a mapping with a key that names no field of the dataclass never
\* decodes to an instance, at the top level and one level down; when the
\* values of the keys that do name fields decode, the error is the one that
\* holds exactly the unconsumed entries.
C6_UnknownKeyRejected ==
    DecodedMapping =>
        LET cls == typ.name
        IN  /\ ExtraItems(cls, raw) # <<>> =>
                /\ IsErr(out)
                /\ FieldsDecode(cls, raw) =>
                     out = Raise("Exception", "The fields do not belong to the class",
                                 <<PyDict(ExtraItems(cls, raw))>>)
            /\ \A i \in Present(cls, raw) :
                 \A sub \in NestedClass(fields(cls)[i].type) :
                    LET v == ValueAt(cls, raw, i)
                    IN  (v.t = "dict" /\ ExtraItems(sub, v) # <<>>) => IsErr(out)

C6_Witness ==
    /\ DecodedMapping
    /\ Present(typ.name, raw) # {}
    /\ FieldsDecode(typ.name, raw)
    /\ ExtraItems(typ.name, raw) = <<PyItem(PyStr(UnknownKey), PyInt(1))>>
    /\ out.t = "Exception"
    /\ out.xs = <<PyDict(ExtraItems(typ.name, raw))>>

\* the fields of cls without a default of which d holds no value
Lacking(cls, d) ==
    {i \in DOMAIN fields(cls) : fields(cls)[i].default = MISSING} \ Present(cls, d)

WellFormed(cls, d) == ExtraItems(cls, d) = <<>> /\ FieldsDecode(cls, d)

RECURSIVE Concat(_)
Concat(seqs) == IF seqs = <<>> THEN <<>> ELSE Head(seqs) \o Concat(Tail(seqs))

\* C8: None decoded against an optional annotation is None and no decoder of
\* a branch is called; any other value is handed to the decoder of the first
\* branch.  The same holds for None as the value of an optional field.
C8_NonePassesThrough ==
    /\ (op = "decode" /\ IsOptional(typ)
            /\ ~Failed(get_decoding_fn(typ, registry, cache))) =>
         IF raw = PyNone
         THEN /\ out = PyNone
              /\ used = <<[f |-> "_try_functions", id |-> ""],
                          [f |-> "_decode_optional", id |-> ""]>>
         ELSE LET r == decode(Branches(typ)[1], raw, registry, cache)
              IN  /\ Len(used) >= 2 + Len(r.calls)
                  /\ SubSeq(used, 3, 2 + Len(r.calls)) = r.calls
                  /\ r.calls # <<>>
                  /\ ~IsErr(r.val) => out = r.val
    /\ (DecodedMapping /\ Len(fields(typ.name)) = 1 /\ Present(typ.name, raw) = {1}
            /\ ExtraItems(typ.name, raw) = <<>>
            /\ IsOptional(fields(typ.name)[1].type)
            /\ ValueAt(typ.name, raw, 1) = PyNone) =>
         /\ out = PyObj(typ.name, <<PyAttr(fields(typ.name)[1].name, PyNone)>>)
         /\ used = <<[f |-> "decode_dataclass", id |-> typ.name],
                     [f |-> "_try_functions", id |-> ""],
                     [f |-> "_decode_optional", id |-> ""]>>

C8_Witness ==
    /\ op = "decode" /\ typ = TOptional(TData("Child")) /\ raw = PyNone
    /\ out = PyNone
    /\ Len(used) = 2

\* the result decode gives for each of vals against the type at its position
DecodeItems(types, vals) ==
    [i \in DOMAIN vals |-> decode(types[i], vals[i], registry, cache).val]

\* the tuple of the decoded items, or the exception the first of them raises
TupleOf(rs) == IF AnyErr(rs) THEN FirstErr(rs) ELSE PyTuple(rs)

CliValues == DictDel(LoadValues(cli), PyStr(CONFIG))

\* the path --CONFIG gives, None when the command line has no --CONFIG
CliPath ==
    IF DictIndex(LoadValues(cli), PyStr(CONFIG)) = 0 THEN PyNone
    ELSE LoadValues(cli)[DictIndex(LoadValues(cli), PyStr(CONFIG))].xs[2]

OnDisk(path) == path.t = "str" /\ path.c \in DOMAIN files

\* the leaves of the file at path, by dotted key
Leaves(path) == flatten(files[path.c], PyNone, ".").xs

\* the value the leaves hold for key k
LeafValue(leaves, k) == leaves[DictIndex(leaves, k)].xs[2]

\* the dotted key a lies above the dotted key b
Above(a, b) ==
    /\ Len(split(a.c, ".")) < Len(split(b.c, "."))
    /\ SubSeq(split(b.c, "."), 1, Len(split(a.c, "."))) = split(a.c, ".")

\* the command line gives key k, or a key above it
Overridden(k) ==
    \E j \in DOMAIN CliValues : CliValues[j].xs[1] = k \/ Above(CliValues[j].xs[1], k)

Sources == Entries(<<parser.config_path, CliPath>>)

\* C4: the config files given are merged leaf by leaf from the first to the
\* last: every leaf key of any of them that the command line does not give
\* holds, in the mapping handed to decode, the value of the last file that
\* has the key.
C4_LeftToRightMerge ==
    (op = "parsed" /\ \A s \in DOMAIN Sources : OnDisk(Sources[s])) =>
        \A s \in DOMAIN Sources : \A i \in DOMAIN Leaves(Sources[s]) :
            LET k == Leaves(Sources[s])[i].xs[1]
                last == CHOOSE t \in DOMAIN Sources :
                            /\ DictIndex(Leaves(Sources[t]), k) # 0
                            /\ \A u \in DOMAIN Sources :
                                   DictIndex(Leaves(Sources[u]), k) # 0 => u <= t
            IN  ~Overridden(k) => At(merged, k) = LeafValue(Leaves(Sources[last]), k)

\* C5: with one config file given to the parser and another named on the
\* command line, both are loaded: a leaf only the parser's file has keeps
\* its value, and every leaf of the command line's file has that file's
\* value (leaves the command line gives itself aside).
C5_BothPathsLoaded ==
    (op = "parsed" /\ OnDisk(parser.config_path) /\ OnDisk(CliPath)) =>
        /\ \A i \in DOMAIN Leaves(CliPath) :
                LET e == Leaves(CliPath)[i]
                IN  ~Overridden(e.xs[1]) => At(merged, e.xs[1]) = e.xs[2]
        /\ \A i \in DOMAIN Leaves(parser.config_path) :
                LET e == Leaves(parser.config_path)[i]
                IN  (~Overridden(e.xs[1]) /\ DictIndex(Leaves(CliPath), e.xs[1]) = 0)
                        => At(merged, e.xs[1]) = e.xs[2]

(***************************************************************************)
(* Enum annotations.                                                       *)
(***************************************************************************)
\* the names of the members of enumeration cls
MemberNames(cls) == {EnumMembers(cls)[i].name : i \in DOMAIN EnumMembers(cls)}

\* C11: decoding a string against an enum annotation looks the string up as
\* a member name: the name of a member gives that member, whatever the
\* member's value, and a string that names no member fails.
C11_EnumByName ==
    (op = "decode" /\ is_enum(typ) /\ raw.t = "str") =>
        IF raw.c \in MemberNames(typ.name)
        THEN out = PyEnum(typ.name, raw.c)
        ELSE IsErr(out)

(***************************************************************************)
(* Encoding.                                                               *)
(***************************************************************************)
RECURSIVE HasUnregistered(_)
\* v is, or holds at some depth, an instance of a class without encoder
HasUnregistered(v) ==
    v.t = "instance" \/ \E i \in DOMAIN v.xs : HasUnregistered(v.xs[i])

\* C12: encoding a mapping gives the mapping of the encoded keys and
\* values, or the list of the (encoded key, encoded value) pairs when an
\* encoded key is unhashable; either way one entry per entry of the input,
\* in whatever order hashable and unhashable encoded keys come.
C12_EncodeMapping ==
    (op = "encode" /\ raw.t = "dict" /\ ~HasUnregistered(raw)) =>
        LET ks == [i \in DOMAIN raw.xs |-> encode(raw.xs[i].xs[1])]
            vs == [i \in DOMAIN raw.xs |-> encode(raw.xs[i].xs[2])]
        IN  /\ Len(out.xs) = Len(raw.xs)
            /\ IF \A i \in DOMAIN ks : ks[i].t \notin {"list", "dict", "set"}
               THEN /\ out.t = "dict"
                    /\ \A i \in DOMAIN ks : out.xs[i] = PyItem(ks[i], vs[i])
               ELSE /\ out.t = "list"
                    /\ \A i \in DOMAIN ks : out.xs[i] = PyTuple(<<ks[i], vs[i]>>)

\* C13: encoding a value that is, or holds at any depth (in a field of a
\* dataclass instance, in a container, as a key or a value of a mapping),
\* an instance of a class without encoder raises; when the "no parser"
\* exception is what comes out, it names that instance.
C13_UnregisteredFails ==
    (op = "encode" /\ HasUnregistered(raw)) =>
        /\ IsErr(out)
        /\ out.t = "Exception" =>
               out = Raise("Exception", "No parser for object", <<PyPlain>>)

\* an instance without encoder two dataclasses deep made encode raise
C13_Witness ==
    /\ op = "encode" /\ raw.t = "object" /\ raw.s = "Parent"
    /\ HasUnregistered(raw)
    /\ out = Raise("Exception", "No parser for object", <<PyPlain>>)

(***************************************************************************)
(* Errors out of the fields of a dataclass.                                *)
(***************************************************************************)
\* C14: when the decoding of a field of a dataclass raises, decode raises
\* one ParsingError (the dedicated decode error, utils.ParsingError) that
\* names the class, the field, its declared type and the raw value, however
\* deep the field lies.
C14_FieldErrorWrapped ==
    (DecodedMapping /\ ~FieldsDecode(typ.name, raw)) =>
        /\ out.t = "ParsingError"
        /\ out.xs # <<>>

(***************************************************************************)
(* The format selector.                                                    *)
(***************************************************************************)
\* C15: entering config_type(f) sets the selector to f and remembers the
\* selector p of that moment; leaving the innermost context, whether its
\* body completed or raised, sets the selector to the p it remembers,
\* whatever the body did to the selector, and leaves the outer contexts as
\* they were: contexts restore innermost first.
C15_ScopedOverride ==
    [][/\ op' = "enter" =>
            /\ config_type' = Head(scopes').new_type
            /\ config_type' = set_config_type(raw')
            /\ Head(scopes').current_type = config_type
            /\ Tail(scopes') = scopes
       /\ op' \in {"exit", "exit raised"} =>
            /\ scopes # <<>>
            /\ config_type' = Head(scopes).current_type
            /\ scopes' = Tail(scopes)]_vars

\* a context nested in another was left by an exception, and the selector
\* is back at the format of the outer context, which is not the default
C15_Witness ==
    /\ op = "exit raised"
    /\ Len(scopes) = 1
    /\ config_type = scopes[1].new_type
    /\ config_type # scopes[1].current_type
    /\ config_type # YAML

\* the values of a command line, each parsed with the strategy of selector
ActiveValues(selector, parsed_args) ==
    [i \in DOMAIN parsed_args |->
        PyItem(parsed_args[i].xs[1], parse_string(selector, parsed_args[i].xs[2].c))]

\* C16: the text of every command-line value is parsed with the strategy
\* that the selector names when parse_args runs (yaml, json or toml): with
\* no config file in play, what is handed to decode is the nesting of the
\* values so parsed.
C16_ActiveStrategy ==
    (op = "parsed" /\ parser.config_path = PyNone
                   /\ DictIndex(cli, PyStr(CONFIG)) = 0) =>
        merged = deflatten(PyDict(ActiveValues(config_type, cli)), ".")

(***************************************************************************)
(* withregistry.                                                           *)
(***************************************************************************)
\* the classes other than cls that cls is a subclass of and that hold a
\* registration made with include_subclasses=True
InclusiveAncestors(cls) ==
    {a \in DOMAIN wr.registry :
        a # cls /\ issubclass(cls, a, abc) /\ wr.registry[a].include_subclasses}

\* C17: after any registrations, a registration is the last one made for
\* its class, and dispatch(cls) returns the registration made for exactly
\* cls when there is one; otherwise a registration made with
\* include_subclasses=True for an ancestor of cls when there is one;
\* otherwise nothing.
C17_Dispatch ==
    /\ op = "register" => wr.registry[raw.c[1]].func = out.c[1]
    /\ op = "dispatch" =>
          IF raw.c[1] \in DOMAIN wr.registry
          THEN out.c[1] = wr.registry[raw.c[1]].func
          ELSE IF InclusiveAncestors(raw.c[1]) # {}
          THEN \E a \in InclusiveAncestors(raw.c[1]) : out.c[1] = wr.registry[a].func
          ELSE out.c[1] = "None"

(***************************************************************************)
(* The argument registrar.                                                 *)
(***************************************************************************)
\* the destinations of the groups of a parser are pairwise different
UniqueDests(self) ==
    \A i, j \in DOMAIN self._wrappers :
        i # j => dest(self._wrappers[i]) # dest(self._wrappers[j])

\* C18: registering a group under a destination that a registered group of
\* the parser already has raises an error and leaves the registered groups
\* as they were, and once the descendants are added no two groups of the
\* parser have the same dotted destination.
C18_UniqueDestinations ==
    /\ [][(/\ op' \in {"add_arguments", "add_arguments raised"}
           /\ op # "start"
           /\ \E i \in DOMAIN parser._wrappers : dest(parser._wrappers[i]) = raw'.c)
          => (IsErr(out') /\ parser'._wrappers = parser._wrappers)]_vars
    /\ [](op \in {"_preprocessing", "_preprocessing raised"} => UniqueDests(parser))

\* the names of the options that name the configuration file
ReservedNames == {CONFIG_ARG, CONFIG}

\* C19: building the parser for a schema that has a field named as the
\* option of the configuration file raises an error.
C19_ReservedName ==
    (/\ op \in {"init", "init raised"}
     /\ \E i \in DOMAIN fields(typ.name) : fields(typ.name)[i].name \in ReservedNames)
    => IsErr(out)

RECURSIVE ContainerOfRecords(_)
\* a list or a tuple of dataclasses, or a union with one among its arguments
ContainerOfRecords(t) ==
    \/ is_tuple_or_list(t) /\ t.args # <<>> /\ is_dataclass(t.args[1])
    \/ is_union(t) /\ \E i \in DOMAIN t.args : ContainerOfRecords(t.args[i])

RECURSIVE RecordIn(_)
\* the dataclass that a field of this type nests, "" when it nests none
RecordIn(t) ==
    IF is_dataclass(t) THEN t.name
    ELSE IF is_union(t) /\ \E i \in DOMAIN t.args : RecordIn(t.args[i]) # ""
    THEN RecordIn(t.args[CHOOSE i \in DOMAIN t.args : RecordIn(t.args[i]) # ""])
    ELSE ""

RECURSIVE HasContainerOfRecords(_)
\* the dataclass, or a dataclass nested in it, has a field that is a
\* container of dataclasses
HasContainerOfRecords(cls) ==
    \E i \in DOMAIN fields(cls) :
        \/ ContainerOfRecords(fields(cls)[i].type)
        \/ /\ RecordIn(fields(cls)[i].type) # ""
           /\ HasContainerOfRecords(RecordIn(fields(cls)[i].type))

\* C20: building the parser, or registering a group, for a dataclass that
\* has at any depth a field typed as a list or a tuple of dataclasses, be it
\* wrapped in an optional or a union, raises NotImplementedError.
C20_ContainerOfRecords ==
    (/\ op \in {"init", "init raised", "add_arguments", "add_arguments raised"}
     /\ out.t # "ArgumentError"
     /\ HasContainerOfRecords(typ.name))
    => out.t = "NotImplementedError"


(***************************************************************************)
(* Optional groups, on SpecGroups.                                         *)
(***************************************************************************)
\* the entries the config file supplies, by dotted key
FileEntries ==
    IF parser.config_path = PyNone THEN <<>>
    ELSE flatten(full_load(files, parser.config_path), BASE_KEY, ".").xs

\* the value the sources supply at a dotted key, the command line first
SuppliedAt(key) ==
    IF DictIndex(cli, Str(key)) # 0
    THEN safe_load(cli[DictIndex(cli, Str(key))].xs[2].c)
    ELSE IF DictIndex(FileEntries, Str(key)) # 0
    THEN FileEntries[DictIndex(FileEntries, Str(key))].xs[2]
    ELSE Absent

\* a source supplies a value at a dotted key below the group at path
SuppliedBelow(path) ==
    \E e \in SeqToSet(cli) \cup SeqToSet(FileEntries) :
        /\ Len(e.xs[1].c) > Len(path) + 1
        /\ SubSeq(e.xs[1].c, 1, Len(path) + 1) = path \o <<".">>

RECURSIVE GroupOf(_, _)
\* The instance of cls that the claim describes for the group at the path
\* parts: a leaf holds what the sources supply for it or its default, an
\* optional group below is None unless a source supplies something below it.
GroupOf(cls, parts) ==
    PyObj(cls,
          [i \in DOMAIN fields(cls) |->
              LET f == fields(cls)[i]
                  at == Append(parts, f.name)
              IN  PyAttr(f.name,
                     IF NestedClass(f.type) # {}
                     THEN IF SuppliedBelow(join(at, "."))
                          THEN GroupOf(CHOOSE sub \in NestedClass(f.type) : TRUE, at)
                          ELSE PyNone
                     ELSE IF SuppliedAt(join(at, ".")) # Absent
                     THEN decode(f.type, SuppliedAt(join(at, ".")), registry, cache).val
                     ELSE f.default)])

\* C21: an optional group is None when no source supplies a value below it,
\* and when a source supplies a leaf of it, it is the instance built from the
\* supplied leaves and the defaults of the dataclass for the others; so for
\* the groups below it and for the group beside it.
C21_OptionalGroup ==
    (op = "parsed" /\ typ = TData("GrandParent")) => out = GroupOf("GrandParent", <<>>)


(***************************************************************************)
(* The dump that omits the defaults, on SpecDump.                          *)
(***************************************************************************)
RECURSIVE LeavesOf(_, _)
\* the leaves of a nested mapping: the path of keys to each value that is
\* not a mapping, and the value
LeavesOf(d, path) ==
    UNION {IF d.xs[i].xs[2].t = "dict"
           THEN LeavesOf(d.xs[i].xs[2], Append(path, d.xs[i].xs[1].c))
           ELSE {[path |-> Append(path, d.xs[i].xs[1].c), value |-> d.xs[i].xs[2]]} :
                i \in DOMAIN d.xs}

\* the leaves of the encoded instance that are not the leaves of the encoded
\* defaults
NotDefault(config, defaults) ==
    {l \in LeavesOf(config, <<>>) :
        \/ Lookup(defaults, l.path) = Absent
        \/ ~PyEq(Lookup(defaults, l.path), l.value)}

\* C22: the mapping dumped with omit_defaults holds exactly the leaves of
\* the encoded instance that differ from the encoded default at the same
\* path or have no default, each with its value, at every depth.
C22_OmitDefaults ==
    op = "dump omit_defaults" =>
        /\ ~IsErr(config_dict)
        /\ LeavesOf(config_dict, <<>>)
             = NotDefault(encode(raw), encode(get_defaults_dict(typ.name)))


RECURSIVE AllDefaults(_)
\* every field of the dataclass has a default, and so below it
AllDefaults(cls) ==
    \A i \in DOMAIN fields(cls) :
        /\ fields(cls)[i].default # MISSING
        /\ \A sub \in NestedClass(fields(cls)[i].type) : AllDefaults(sub)

\* C28: for an instance x of a dataclass whose fields all have defaults, a
\* nested dataclass with a default instance of its own included, decoding
\* the mapping dumped with omit_defaults gives an instance equal to x.
C28_OmitDefaultsRoundTrip ==
    (op = "load omit_defaults" /\ AllDefaults(typ.name)) => PyEq(out, raw)


(***************************************************************************)
(* Decoding twice, on SpecRedecode.                                        *)
(***************************************************************************)
\* C23: a decode leaves the mapping of the caller as it was, at every depth,
\* and decoding the same mapping again gives a result equal to the first.
C23_IdempotentRedecode ==
    [][/\ op' \in {"decode", "decode again"} => raw' = raw
       /\ op' = "decode again" => PyEq(out', out)]_vars

C23_Witness ==
    /\ op = "decode again" /\ typ = TData("Nested")
    /\ raw = PyDict(<<PyItem(PyStr(<<"p">>), ChildDict), PyItem(PyStr(<<"a">>), PyInt(1))>>)
    /\ out = PyObj("Nested", <<PyAttr(<<"p">>, PyObj("Child", <<PyAttr(<<"n">>, PyStr(cBob))>>)),
                               PyAttr(<<"a">>, PyInt(1))>>)


(***************************************************************************)
(* The order of the strategies, on SpecDispatch.                           *)
(***************************************************************************)
\* an annotation that no strategy of get_decoding_fn matches
NoStrategy(t, reg) ==
    /\ ~InRegistry(t, reg)
    /\ ~is_dataclass(t) /\ t # TAny /\ ~is_dict(t) /\ ~is_set(t) /\ ~is_tuple(t)
    /\ ~is_list(t) /\ ~is_union(t) /\ ~is_enum(t)

\* C24: a decode of a type that has a registered decoder gives what that
\* decoder gives, also for a dataclass and an enum; a decode of a type that
\* no strategy matches raises the exception that names the type, and nothing
\* is memoised for it.
C24_DispatchOrder ==
    op = "decode" =>
        /\ InRegistry(typ, registry) => out = CallDecoder(registry[typ.name], raw)
        /\ NoStrategy(typ, registry) =>
               /\ out = Raise("Exception", "No decoding function for type",
                              <<PyType(typ.name)>>)
               /\ typ \notin DOMAIN cache


(***************************************************************************)
(* Fields that are not part of __init__, on SpecNonInit.                   *)
(***************************************************************************)
\* the value of the attribute name of obj, Absent when it was never assigned
AttrOf(obj, name) ==
    IF \E j \in DOMAIN obj.xs : obj.xs[j].c = name
    THEN obj.xs[CHOOSE j \in DOMAIN obj.xs : obj.xs[j].c = name].xs[1]
    ELSE Absent

\* the value the mapping d holds for the key name, Absent when it holds none
ItemOf(d, name) ==
    IF DictIndex(d.xs, PyStr(name)) # 0 THEN d.xs[DictIndex(d.xs, PyStr(name))].xs[2]
    ELSE Absent

\* the fields of cls that __init__ does not take
NonInit(cls) == {i \in DOMAIN fields(cls) : ~fields(cls)[i].init}

\* the mapping holds keys of fields only and every value decodes
Decodable(cls, d) ==
    /\ d.t = "dict"
    /\ \A j \in DOMAIN d.xs :
          \E i \in DOMAIN fields(cls) :
              /\ d.xs[j].xs[1] = PyStr(fields(cls)[i].name)
              /\ ~IsErr(decode(fields(cls)[i].type, d.xs[j].xs[2], InitRegistry, NoCache).val)

\* C25: a mapping that holds a field that is not part of __init__ decodes to
\* an instance (the key is not handed to __init__, which does not take it)
\* whose attribute holds the decoded value of the key, whatever __init__ and
\* __post_init__ assigned; encoding an instance gives an entry for every
\* field, those that are not part of __init__ included (an attribute that
\* nothing ever assigned makes encode raise AttributeError).
C25_NonInitFields ==
    /\ (op \in {"decode", "encode"} /\ Decodable(typ.name, raw)) =>
          /\ out.t = "object"
          /\ \A i \in NonInit(typ.name) :
                ItemOf(raw, fields(typ.name)[i].name) # Absent =>
                    AttrOf(out, fields(typ.name)[i].name)
                        = decode(fields(typ.name)[i].type,
                                 ItemOf(raw, fields(typ.name)[i].name), InitRegistry, NoCache).val
    /\ op = "encode" =>
          IF \A i \in DOMAIN fields(typ.name) : AttrOf(out, fields(typ.name)[i].name) # Absent
          THEN config_dict =
                  PyDict([i \in DOMAIN fields(typ.name) |->
                             PyItem(PyStr(fields(typ.name)[i].name),
                                    encode(AttrOf(out, fields(typ.name)[i].name)))])
          ELSE config_dict.t = "AttributeError"

\* Computed(), whose __post_init__ set z = a = 0, holds the z = 1 of the
\* mapping, and the encoded mapping holds z
C25_Witness ==
    /\ op = "encode" /\ typ = TData("Computed")
    /\ raw = PyDict(<<PyItem(PyStr(<<"z">>), PyInt(1))>>)
    /\ out = PyObj("Computed", <<PyAttr(<<"a">>, PyInt(0)), PyAttr(<<"z">>, PyInt(1))>>)
    /\ config_dict = PyDict(<<PyItem(PyStr(<<"a">>), PyInt(0)),
                              PyItem(PyStr(<<"z">>), PyInt(1))>>)


(***************************************************************************)
(* Preprocessing once, on SpecRegistrar.                                   *)
(***************************************************************************)
\* the groups registered with add_arguments: those that have no parent
Registered_groups(self) == SelectSeq(self._wrappers, LAMBDA w : w.lineage = <<>>)

\* how often the option string opt is registered with the parser
TimesRegistered(self, opt) == Cardinality({j \in DOMAIN self._actions : self._actions[j] = opt})

\* the wrappers are the registered groups followed by their descendants, each
\* added once, and every leaf argument of every wrapper is registered once
PreprocessedOnce(self) ==
    /\ self._wrappers = Registered_groups(self) \o AllDescendants(Registered_groups(self), 1)
    /\ \A i \in DOMAIN self._wrappers :
          \A k \in DOMAIN OptionStrings(self._wrappers[i]) :
              TimesRegistered(self, OptionStrings(self._wrappers[i])[k]) = 1

\* C26: after any number of calls of _preprocessing on a parser, made by
\* parse_args, parse_known_args and print_help, the descendants of each group
\* are added once and each leaf argument is registered once, and a call
\* after the first leaves the parser as the first left it.
C26_PreprocessedOnce ==
    /\ [](op \in {"_preprocessing", "_preprocessing raised"} => PreprocessedOnce(parser))
    /\ [][(op \in {"_preprocessing", "_preprocessing raised"}
           /\ op' \in {"_preprocessing", "_preprocessing raised"})
          => (parser' = parser /\ out' = out)]_vars


(***************************************************************************)
(* flatten and deflatten as inverses, on SpecFlatten.                      *)
(***************************************************************************)
RECURSIVE WellFormedMapping(_)
\* a nested mapping whose keys are strings without the separator and that
\* has no empty mapping under it
WellFormedMapping(d) ==
    \A i \in DOMAIN d.xs :
        /\ d.xs[i].xs[1].t = "str"
        /\ \A k \in DOMAIN d.xs[i].xs[1].c : d.xs[i].xs[1].c[k] # "."
        /\ d.xs[i].xs[2].t = "dict" => (d.xs[i].xs[2].xs # <<>> /\ WellFormedMapping(d.xs[i].xs[2]))

\* key a followed by the separator begins key b
DottedPrefix(a, b) ==
    /\ Len(a) < Len(b)
    /\ SubSeq(b, 1, Len(a) + 1) = a \o <<".">>

\* a flat mapping no key of which is a proper dotted prefix of another
PrefixFree(f) ==
    \A i, j \in DOMAIN f.xs : ~DottedPrefix(f.xs[i].xs[1].c, f.xs[j].xs[1].c)

\* C27: deflatten(flatten(d)) == d for a nested mapping d whose keys are
\* strings without the separator and that has no empty mapping under it, and
\* flatten(deflatten(f)) == f for a flat mapping f no key of which is a
\* proper dotted prefix of another.
C27_FlattenInverse ==
    /\ (op = "deflatten(flatten(d))" /\ WellFormedMapping(raw)) => PyEq(out, raw)
    /\ (op = "flatten(deflatten(f))" /\ PrefixFree(raw)) => PyEq(out, raw)


(***************************************************************************)
(* None for a dataclass, on SpecDecode.                                    *)
(***************************************************************************)
\* C29: None decoded against a dataclass is None, nothing is raised and no
\* instance is made; a mapping that holds None for a field annotated with a
\* dataclass, optional or not, and is well formed otherwise decodes to the
\* instance that holds None in that field.
C29_NullRecord ==
    op = "decode" =>
        /\ (is_dataclass(typ) /\ raw = PyNone) => out = PyNone
        /\ (/\ is_dataclass(typ) /\ raw.t = "dict"
            /\ WellFormed(typ.name, raw)
            /\ \A i \in Lacking(typ.name, raw) : ~fields(typ.name)[i].init)
           => /\ out.t = "object"
              /\ \A i \in DOMAIN fields(typ.name) :
                    (/\ is_dataclass(fields(typ.name)[i].type)
                     /\ ItemOf(raw, fields(typ.name)[i].name) = PyNone)
                    => AttrOf(out, fields(typ.name)[i].name) = PyNone

\* Nested declares p: Child, not optional
C29_Witness ==
    /\ op = "decode" /\ typ = TData("Nested")
    /\ raw = PyDict(<<PyItem(PyStr(<<"p">>), PyNone), PyItem(PyStr(<<"a">>), PyInt(1))>>)
    /\ out = PyObj("Nested", <<PyAttr(<<"p">>, PyNone), PyAttr(<<"a">>, PyInt(1))>>)


(***************************************************************************)
(* The dispatch cache, on SpecRegistryUtils.                               *)
(***************************************************************************)
\* C30: after any registrations and dispatches, a dispatch returned what
\* the lookup gives when computed from the registry as it is now, and so
\* would a dispatch of any class that the cache holds.
C30_CacheNeverStale ==
    /\ op = "dispatch" => out = PyStr(<<Lookup_impl(raw.c[1], wr.registry, abc).func>>)
    /\ \A cls \in DOMAIN Fresh(wr, abc).dispatch_cache :
          Fresh(wr, abc).dispatch_cache[cls] = Lookup_impl(cls, wr.registry, abc)

\* Leaf is dispatched to g, registered for Base and its subclasses, from a
\* cache that holds another class too
C30_Witness ==
    /\ op = "dispatch" /\ raw = PyStr(<<"Leaf">>) /\ out = PyStr(<<"g">>)
    /\ DOMAIN wr.registry = {"Base"}
    /\ wr.registry["Base"] = RegistryFunc("g", TRUE)
    /\ DOMAIN wr.dispatch_cache = {"Leaf", "Free"}

====
